---------------------------- MODULE Spec2Model ----------------------------
(***************************************************************************)
(* Model of the signal-weight optimizers of polymarket-trader:             *)
(*   src/python/optimizers/bayesian_optimizer.py                           *)
(*     BayesianOptimizer        (_normalize, _weights_to_dict, optimize,   *)
(*                               suggest_next)                             *)
(*     OnlineBayesianOptimizer  (record_evaluation, should_update,         *)
(*                               get_next_weights, get_best_weights,       *)
(*                               get_statistics)                           *)
(*                                                                         *)
(* Numbers.  A Python float is modelled as an exact rational <<n, d>> in   *)
(* lowest terms with d >= 1, so that equal numbers are equal values.       *)
(* Rounding, overflow to inf and NaN are outside the model: every sum,     *)
(* quotient and comparison is the exact one.                               *)
(***************************************************************************)
EXTENDS Integers, Sequences, FiniteSets, Bags, TLC

VARIABLES
    \* ---- BayesianOptimizer, the fields set by __init__ ----
    signal_bounds,       \* self.signal_bounds
    normalize_weights,   \* self.normalize_weights
    random_state,        \* self.random_state
    \* ---- BayesianOptimizer._normalize / _weights_to_dict, one call ----
    raw,                 \* the np.ndarray handed to the call
    normalized,          \* what _normalize(raw) returned       (NoValue before)
    weights_dict,        \* what _weights_to_dict(raw) returned (NoValue before)
    \* ---- OnlineBayesianOptimizer, one instance (self.optimizer is the
    \*      BayesianOptimizer above) ----
    window_size,         \* self.window_size
    update_interval,     \* self.update_interval
    evaluation_history,  \* self.evaluation_history
    current_weights,     \* self.current_weights
    evaluation_count,    \* self.evaluation_count
    recorded,            \* history variable: every (weights, score) ever recorded
    ret,                 \* the last call on the instance and what it returned
    \* ---- BayesianOptimizer.optimize, one run ----
    opt_pc,              \* "idle" | "running" | "done" | "raised"
    n_calls,             \* the n_calls handed to gp_minimize
    n_initial_points,    \* the n_initial_points handed to gp_minimize
    initial_remaining,   \* gp_minimize: random points still to be asked for
    phases,              \* history variable: how each point of x_iters was chosen
    x_iters,             \* the points gp_minimize has asked wrapped_objective for
    all_weights,         \* closure list all_weights
    all_scores,          \* closure list all_scores
    convergence_history, \* closure list convergence_history
    result,              \* what optimize returned or raised (NoValue before)
    \* ---- BayesianOptimizer.suggest_next, one call ----
    sug_pc,              \* "idle" | "called" | "cold" | "fitted" | "drawn" |
                         \* "scored" | "done"
    evaluated_points,    \* the evaluated_points argument
    n_suggestions,       \* the n_suggestions argument
    candidates,          \* the raw points of the last draw (local weights / candidates)
    suggestions,         \* the list being built, then returned
    twin_suggestions,    \* the list the same call builds on a second instance
                         \* constructed with the same arguments
    gp_fits,             \* the (X, y) of every gp.fit the call has made
    ei,                  \* local ei where a run stops between its computation
                         \* and np.argmax (SpecSelect); <<>> otherwise
    best_idx,            \* the index np.argmax returned for it (1-based; 0 before)
    \* ---- BayesianOptimizer.get_feature_importance, one call ----
    imp_pc,              \* "idle" | "called" | "done" | "raised"
    imp_points,          \* the evaluated_points argument
    imp_fits,            \* how many times the call has run gp.fit
    importance,          \* what the call returned or raised (NoValue before)
    \* ---- BayesianOptimizer.optimize_with_constraints, one run ----
    constraint_fn,       \* the constraint_fn argument ("None" when not given)
    penalty,             \* the penalty argument
    objective_calls,     \* history variable: the weights objective_fn was called with
    \* ---- api/optimizer_server.py ----
    active_optimizers,   \* the registry: optimizer_id -> reference to an optimizer
    heap,                \* the OnlineBayesianOptimizer objects constructed, by reference
    uuid_count,          \* how many values uuid.uuid4() has returned
    work_queue,          \* executor: the callables submitted and not yet started
    running,             \* executor: the callables running on worker threads (a bag)
    clients,             \* environment: clients, each with at most one suggest outstanding
    response,            \* the outcome of the last handler step on the event loop
    \* ---- services/optimizer-server/app/main.py ----
    optimizers,          \* the registry: optimizer_id -> OptunaOptimizer
    service_uuid_count,  \* how many values uuid.uuid4() has returned
    service_response,    \* the outcome of the last handler (NoValue: not started)
    \* ---- api/optimizer_server.py, batch jobs ----
    optimization_jobs,   \* the job table: job_id -> the job's dict
    background_tasks     \* run_optimization tasks added and not yet run

boVars     == <<signal_bounds, normalize_weights, random_state>>
normVars   == <<raw, normalized, weights_dict>>
onlineVars == <<window_size, update_interval, evaluation_history,
                current_weights, evaluation_count, recorded, ret>>
optVars    == <<opt_pc, n_calls, n_initial_points, initial_remaining, phases,
                x_iters, all_weights, all_scores, convergence_history, result>>
sugVars    == <<sug_pc, evaluated_points, n_suggestions, candidates, suggestions,
                twin_suggestions, gp_fits, ei, best_idx>>
impVars    == <<imp_pc, imp_points, imp_fits, importance>>
conVars    == <<constraint_fn, penalty, objective_calls>>
srvVars    == <<active_optimizers, heap, uuid_count, work_queue, running,
                clients, response>>
svcVars    == <<optimizers, service_uuid_count, service_response>>
jobVars    == <<optimization_jobs, background_tasks>>
vars       == <<boVars, normVars, onlineVars, optVars, sugVars, impVars, conVars,
                srvVars, svcVars, jobVars>>

\* The value a variable holds before the call that sets it has returned.
NoValue == <<>>

\* BayesianOptimizer.__init__: random_state: int = 42
DefaultRandomState == 42

(***************************************************************************)
(* Bounds of the model.                                                    *)
(***************************************************************************)
MaxLen == 3      \* longest raw array handed to _normalize
MaxRaw == 2      \* raw array components range over -MaxRaw..MaxRaw

(***************************************************************************)
(* Exact rational arithmetic standing for float arithmetic.                *)
(***************************************************************************)
Abs(n) == IF n < 0 THEN -n ELSE n

RECURSIVE GCD(_, _)
GCD(a, b) == IF b = 0 THEN a ELSE GCD(b, a % b)

\* The rational n/d (d /= 0) in lowest terms with a positive denominator.
Frac(n, d) ==
    LET g == GCD(Abs(n), Abs(d))
        s == IF d < 0 THEN -1 ELSE 1
    IN  <<(s * n) \div g, (s * d) \div g>>

\* The floats that are no numbers: float("nan") and float("inf").  No
\* arithmetic is done on them; a comparison with NaN is false, and +inf
\* compares above every number (FLt below).
NaN    == <<0, 0>>
PosInf == <<1, 0>>
IsNaN(x)    == x = NaN
IsFinite(x) == x[2] /= 0

Num(k)     == <<k, 1>>
Zero       == Num(0)
One        == Num(1)
FAdd(a, b) == Frac(a[1] * b[2] + b[1] * a[2], a[2] * b[2])
FMul(a, b) == Frac(a[1] * b[1], a[2] * b[2])
FDiv(a, b) == Frac(a[1] * b[2], a[2] * b[1])
FLt(a, b)  == a[1] * b[2] < b[1] * a[2]
FLe(a, b)  == a[1] * b[2] <= b[1] * a[2]

\* np.sum over a one-dimensional array.
RECURSIVE FSum(_)
FSum(w) == IF w = <<>> THEN Zero ELSE FAdd(w[1], FSum(Tail(w)))

(***************************************************************************)
(* BayesianOptimizer._normalize and _weights_to_dict.                      *)
(***************************************************************************)
\* A slip that forgets "/ len(weights)" in the fallback.
_normalize_ones(weights) ==
    LET total == FSum(weights)
    IN  IF FLt(Zero, total)
        THEN [i \in DOMAIN weights |-> FDiv(weights[i], total)]
        ELSE [i \in DOMAIN weights |-> One]

\* A slip that tests "total != 0" instead of "total > 0".
_normalize_nonzero(weights) ==
    LET total == FSum(weights)
    IN  IF total /= Zero
        THEN [i \in DOMAIN weights |-> FDiv(weights[i], total)]
        ELSE [i \in DOMAIN weights |-> FDiv(One, Num(Len(weights)))]

_normalize(weights) ==
    LET total == FSum(weights)
    IN  IF FLt(Zero, total)
        THEN [i \in DOMAIN weights |-> FDiv(weights[i], total)]
        ELSE [i \in DOMAIN weights |-> FDiv(One, Num(Len(weights)))]

Min(a, b) == IF a < b THEN a ELSE b

\* dict(zip(signal_ids, weights)): zip stops at the shorter one, and a key
\* that occurs twice keeps its last value.
ZipDict(signal_ids, weights) ==
    LET n == Min(Len(signal_ids), Len(weights))
    IN  [s \in {signal_ids[i] : i \in 1..n} |->
            LET last == CHOOSE i \in 1..n :
                            /\ signal_ids[i] = s
                            /\ \A j \in (i+1)..n : signal_ids[j] /= s
            IN  weights[last]]

_weights_to_dict(signal_ids, normalizing, weights) ==
    ZipDict(signal_ids, IF normalizing THEN _normalize(weights) ELSE weights)

(***************************************************************************)
(* Idle values: what the variables of a component hold in a specification  *)
(* that does not run it.                                                   *)
(***************************************************************************)
NormIdle ==
    /\ raw = <<>>
    /\ normalized = NoValue
    /\ weights_dict = NoValue

OnlineIdle ==
    /\ window_size = 0
    /\ update_interval = 0
    /\ evaluation_history = <<>>
    /\ current_weights = NoValue
    /\ evaluation_count = 0
    /\ recorded = <<>>
    /\ ret = [op |-> "none"]

OptIdle ==
    /\ opt_pc = "idle"
    /\ n_calls = 0
    /\ n_initial_points = 0
    /\ initial_remaining = 0
    /\ phases = <<>>
    /\ x_iters = <<>>
    /\ all_weights = <<>>
    /\ all_scores = <<>>
    /\ convergence_history = <<>>
    /\ result = NoValue

JobIdle ==
    /\ optimization_jobs = <<>>
    /\ background_tasks = {}

ImpIdle ==
    /\ imp_pc = "idle"
    /\ imp_points = <<>>
    /\ imp_fits = 0
    /\ importance = NoValue

SugIdle ==
    /\ sug_pc = "idle"
    /\ evaluated_points = <<>>
    /\ n_suggestions = 0
    /\ candidates = <<>>
    /\ suggestions = <<>>
    /\ twin_suggestions = <<>>
    /\ gp_fits = <<>>
    /\ ei = <<>>
    /\ best_idx = 0

SrvIdle ==
    /\ active_optimizers = <<>>
    /\ heap = <<>>
    /\ uuid_count = 0
    /\ work_queue = <<>>
    /\ running = EmptyBag
    /\ clients = 0
    /\ response = NoValue

SvcIdle ==
    /\ optimizers = <<>>
    /\ service_uuid_count = 0
    /\ service_response = NoValue

ConIdle ==
    /\ constraint_fn = "None"
    /\ penalty = NoValue
    /\ objective_calls = <<>>

(***************************************************************************)
(* SpecNormalize: one raw array, handed to _normalize and to               *)
(* _weights_to_dict of an optimizer that declares one signal per           *)
(* component.                                                              *)
(***************************************************************************)
AllSignalIds == <<"A", "B", "C", "D", "E">>

SignalIdsOfLen(n) == SubSeq(AllSignalIds, 1, n)

RawArrays ==
    UNION {[1..n -> {Num(k) : k \in (-MaxRaw)..MaxRaw}] : n \in 1..MaxLen}

InitNormalize ==
    /\ signal_bounds = <<>>
    /\ normalize_weights \in BOOLEAN
    /\ random_state = DefaultRandomState
    /\ raw \in RawArrays
    /\ normalized = NoValue
    /\ weights_dict = NoValue
    /\ ImpIdle /\ JobIdle /\ OnlineIdle /\ OptIdle /\ SugIdle /\ ConIdle /\ SrvIdle /\ SvcIdle

Normalize ==
    /\ normalized = NoValue
    /\ normalized' = _normalize(raw)
    /\ UNCHANGED <<raw, weights_dict>>
    /\ UNCHANGED <<boVars, jobVars, impVars, onlineVars, optVars, sugVars, conVars, srvVars,
                   svcVars>>

WeightsToDict ==
    /\ weights_dict = NoValue
    /\ weights_dict' =
           _weights_to_dict(SignalIdsOfLen(Len(raw)), normalize_weights, raw)
    /\ UNCHANGED <<raw, normalized>>
    /\ UNCHANGED <<boVars, jobVars, impVars, onlineVars, optVars, sugVars, conVars, srvVars,
                   svcVars>>

NextNormalize == Normalize \/ WeightsToDict

SpecNormalize == InitNormalize /\ [][NextNormalize]_vars

\* The array of a named vector, in the order of signal_ids.
DictToArray(signal_ids, d) == [i \in 1..Len(signal_ids) |-> d[signal_ids[i]]]

UniformVector(n) == [i \in 1..n |-> Frac(1, n)]

\* C6: with normalize_weights enabled, the components of the vector that
\* _normalize returns, and of the named vector that _weights_to_dict returns,
\* sum to 1, whatever the signs and the sum of the raw array.
C6_NormalizedSumsToOne ==
    /\ normalized /= NoValue => FSum(normalized) = One
    /\ (weights_dict /= NoValue /\ normalize_weights) =>
           FSum(DictToArray(SignalIdsOfLen(Len(raw)), weights_dict)) = One

\* C6 witness: an array with components of both signs and a negative sum has
\* gone through _normalize and through a normalizing _weights_to_dict.
C6_Witness ==
    /\ normalized /= NoValue
    /\ weights_dict /= NoValue
    /\ normalize_weights
    /\ FLt(FSum(raw), Zero)
    /\ \E i, j \in DOMAIN raw : FLt(raw[i], Zero) /\ FLt(Zero, raw[j])

\* C7 as stated: the normalized vector is the uniform vector exactly when the
\* raw sum is <= 0.
C7_UniformIffSumNotPositive ==
    normalized /= NoValue =>
        (normalized = UniformVector(Len(raw)) <=> FLe(FSum(raw), Zero))

\* C7 amended: a raw sum <= 0 always yields the uniform vector; a raw sum > 0
\* yields each component divided by the sum, which is the uniform vector
\* exactly when all raw components are equal.
C7_UniformFallback ==
    normalized /= NoValue =>
        LET total == FSum(raw)
        IN  /\ FLe(total, Zero) => normalized = UniformVector(Len(raw))
            /\ FLt(Zero, total) =>
                  /\ Len(normalized) = Len(raw)
                  /\ \A i \in DOMAIN raw : FMul(normalized[i], total) = raw[i]
                  /\ normalized = UniformVector(Len(raw))
                        <=> \A i, j \in DOMAIN raw : raw[i] = raw[j]

\* C7 witness: a raw array of at least two equal positive components was
\* normalized, and the result is the uniform vector although the sum is > 0.
C7_Witness ==
    /\ normalized /= NoValue
    /\ Len(raw) >= 2
    /\ FLt(Zero, FSum(raw))
    /\ normalized = UniformVector(Len(raw))

(***************************************************************************)
(* Search space: SignalBounds, and the points np.random.uniform draws.     *)
(***************************************************************************)
GridSteps   == 1   \* np.random.uniform(lo, hi) draws lo + k/GridSteps * (hi - lo)
MaxWindow   == 2   \* window_size ranges over 0..MaxWindow
MaxInterval == 2   \* update_interval ranges over 0..MaxInterval
MaxEvals    == 3   \* record_evaluation calls on one instance
MaxScore    == 1   \* scores range over 0..MaxScore
PoolSize    == 1   \* candidates per EI pool (n_candidates is 1000 in the code)
MaxCalls    == 2   \* n_calls of optimize ranges over 1..MaxCalls
MaxInitial  == 2   \* n_initial_points of optimize ranges over 0..MaxInitial
MaxSuggestions == 2   \* n_suggestions ranges over 0..MaxSuggestions
MaxEI       == 1   \* EI values of the fitted surrogate range over 0..MaxEI
MaxPool     == 3   \* SpecSelect: pools of 1..MaxPool candidates

SignalBounds(id, lo, hi, init) ==
    [signal_id |-> id, min_weight |-> lo, max_weight |-> hi, initial_weight |-> init]

\* The bounds sets the model is run with: the dataclass defaults, and one
\* whose two signals differ in every field.
BoundsSets ==
    { << SignalBounds("A", Num(0), Num(1), Frac(1, 2)),
         SignalBounds("B", Num(0), Num(1), Frac(1, 2)) >>,
      << SignalBounds("A", Num(0), Num(1), Num(0)),
         SignalBounds("B", Num(1), Num(3), Num(2)) >> }

\* BayesianOptimizer.__init__: self.signal_ids.
signal_ids_of(bounds) == [i \in 1..Len(bounds) |-> bounds[i].signal_id]

FSub(a, b) == FAdd(a, <<-b[1], b[2]>>)

\* np.random.uniform(low, high) = low + (high - low) * random_sample(); the
\* model draws random_sample() from the grid 0, 1/GridSteps, ..., 1 (numpy
\* documents that rounding may return high itself).
np_random_uniform(low, high) ==
    {FAdd(low, FMul(FSub(high, low), Frac(k, GridSteps))) : k \in 0..GridSteps}

\* The arrays [np.random.uniform(lows[i], highs[i]) for i in 1..n] can be.
RECURSIVE DrawArrays(_, _, _)
DrawArrays(lows, highs, n) ==
    IF n = 0 THEN {<<>>}
    ELSE {Append(p, w) : p \in DrawArrays(lows, highs, n - 1),
                         w \in np_random_uniform(lows[n], highs[n])}

\* A slip that draws every coordinate from [0, max_weight].
RawPoints_from_zero(bounds) ==
    DrawArrays([i \in 1..Len(bounds) |-> Zero],
               [i \in 1..Len(bounds) |-> bounds[i].max_weight],
               Len(bounds))

\* np.array([np.random.uniform(s.min_weight, s.max_weight)
\*           for s in self.signal_bounds]): the arrays one draw can produce.
RawPoints(bounds) ==
    DrawArrays([i \in 1..Len(bounds) |-> bounds[i].min_weight],
               [i \in 1..Len(bounds) |-> bounds[i].max_weight],
               Len(bounds))

(***************************************************************************)
(* OnlineBayesianOptimizer.                                                *)
(***************************************************************************)
MinPointsForFit  == 3    \* suggest_next: "if len(evaluated_points) < 3"
MinHistoryForFit == 5    \* get_next_weights: "if len(self.evaluation_history) < 5"
TrendMinScores   == 20   \* get_statistics: "if len(scores) >= 20"
TrendSpan        == 10   \* get_statistics: scores[-10:] and scores[:10]
DefaultWindowSize     == 100   \* __init__: window_size: int = 100
DefaultUpdateInterval == 10    \* __init__: update_interval: int = 10

Max(a, b) == IF a > b THEN a ELSE b

\* Python's seq[start:].
PySliceFrom(seq, start) ==
    LET n == Len(seq)
        i == IF start < 0 THEN Max(n + start, 0) ELSE Min(start, n)
    IN  SubSeq(seq, i + 1, n)

\* Python's a % b for b /= 0: the result has the sign of b.
PyMod(a, b) == IF b > 0 THEN a % b ELSE -((-a) % (-b))

\* A slip that seeds the current weights with the uniform vector.
InitialCurrentWeights_uniform(bounds) ==
    [s \in {bounds[i].signal_id : i \in 1..Len(bounds)} |-> Frac(1, Len(bounds))]

\* OnlineBayesianOptimizer.__init__: self.current_weights.
InitialCurrentWeights(bounds) ==
    [s \in {bounds[i].signal_id : i \in 1..Len(bounds)} |->
        LET last == CHOOSE i \in 1..Len(bounds) :
                        /\ bounds[i].signal_id = s
                        /\ \A j \in (i+1)..Len(bounds) : bounds[j].signal_id /= s
        IN  bounds[last].initial_weight]

\* The weights callers report: the two vectors of the spec's scenario.
CallerWeights ==
    { [s \in {"A", "B"} |-> IF s = "A" THEN Frac(1, 5) ELSE Frac(4, 5)],
      [s \in {"A", "B"} |-> IF s = "A" THEN Frac(4, 5) ELSE Frac(1, 5)] }

Scores == {Num(k) : k \in 0..MaxScore}

\* OnlineBayesianOptimizer.__init__(signal_bounds, window_size, update_interval);
\* self.optimizer = BayesianOptimizer(signal_bounds) normalizes by default.
OnlineInit(bounds, window, interval) ==
    /\ signal_bounds = bounds
    /\ normalize_weights = TRUE
    /\ random_state = DefaultRandomState
    /\ window_size = window
    /\ update_interval = interval
    /\ evaluation_history = <<>>
    /\ current_weights = InitialCurrentWeights(bounds)
    /\ evaluation_count = 0
    /\ recorded = <<>>
    /\ ret = [op |-> "__init__"]
    /\ NormIdle /\ ImpIdle /\ JobIdle /\ OptIdle /\ SugIdle /\ ConIdle /\ SrvIdle /\ SvcIdle

\* Spec: every window_size from 0 to MaxWindow (the constructor checks
\* nothing), with the default update_interval.
InitOnline ==
    \E bounds \in BoundsSets, window \in 0..MaxWindow :
        OnlineInit(bounds, window, DefaultUpdateInterval)

\* SpecCadence: every update_interval from 0 to MaxInterval, with the
\* default window_size.
InitCadence ==
    \E bounds \in BoundsSets, interval \in 0..MaxInterval :
        OnlineInit(bounds, DefaultWindowSize, interval)

\* A slip that keeps the oldest entries of the window.
TrimmedHistory_oldest(history, size) ==
    IF Len(history) > size THEN SubSeq(history, 1, Max(size, 0)) ELSE history

\* A slip that trims one entry late.
TrimmedHistory_late(history, size) ==
    IF Len(history) > size + 1 THEN PySliceFrom(history, -size) ELSE history

\* What record_evaluation leaves in self.evaluation_history.
TrimmedHistory(history, size) ==
    IF Len(history) > size THEN PySliceFrom(history, -size) ELSE history

record_evaluation(weights, score) ==
    /\ evaluation_count < MaxEvals
    /\ evaluation_history' =
           TrimmedHistory(Append(evaluation_history, <<weights, score>>), window_size)
    /\ evaluation_count' = evaluation_count + 1
    /\ recorded' = Append(recorded, <<weights, score>>)
    /\ ret' = [op |-> "record_evaluation"]
    /\ UNCHANGED <<window_size, update_interval, current_weights>>
    /\ UNCHANGED <<boVars, jobVars, impVars, normVars, optVars, sugVars, conVars, srvVars, svcVars>>

RecordEvaluation ==
    \E weights \in CallerWeights, score \in Scores : record_evaluation(weights, score)

\* A slip that treats a fresh optimizer as not yet due.
should_update_positive(count, interval) ==
    count > 0 /\ PyMod(count, interval) = 0

\* A slip that looks one evaluation ahead.
should_update_next(count, interval) == PyMod(count + 1, interval) = 0

\* should_update, for update_interval /= 0.
should_update(count, interval) == PyMod(count, interval) = 0

ShouldUpdate ==
    /\ ret' = IF update_interval = 0
              THEN [op |-> "should_update", raised |-> "ZeroDivisionError"]
              ELSE [op |-> "should_update", raised |-> "",
                    value |-> should_update(evaluation_count, update_interval)]
    /\ UNCHANGED <<window_size, update_interval, evaluation_history,
                   current_weights, evaluation_count, recorded>>
    /\ UNCHANGED <<boVars, jobVars, impVars, normVars, optVars, sugVars, conVars, srvVars, svcVars>>

\* np.argmax over a non-empty one-dimensional array, 1-based: the scan keeps
\* the first maximum, and stops at the first NaN.
RECURSIVE ArgmaxScan(_, _, _)
ArgmaxScan(v, i, best) ==
    IF i > Len(v) \/ IsNaN(v[best]) THEN best
    ELSE ArgmaxScan(v, i + 1,
                    IF FLt(v[best], v[i]) \/ IsNaN(v[i]) THEN i ELSE best)

\* A slip that keeps the last maximum.
RECURSIVE ArgmaxScanLast(_, _, _)
ArgmaxScanLast(v, i, best) ==
    IF i > Len(v) THEN best
    ELSE ArgmaxScanLast(v, i + 1, IF FLe(v[best], v[i]) THEN i ELSE best)

np_argmax_last(v) == ArgmaxScanLast(v, 2, 1)

np_argmax(v) == ArgmaxScan(v, 2, 1)

ScoresOf(history) == [i \in 1..Len(history) |-> history[i][2]]

\* A slip that answers the uniform vector for an empty history.
get_best_weights_uniform(history, current) ==
    IF history = <<>>
    THEN [s \in DOMAIN current |-> Frac(1, Cardinality(DOMAIN current))]
    ELSE history[np_argmax(ScoresOf(history))][1]

get_best_weights(history, current) ==
    IF history = <<>> THEN current
    ELSE history[np_argmax(ScoresOf(history))][1]

GetBestWeights ==
    /\ ret' = [op |-> "get_best_weights",
               value |-> get_best_weights(evaluation_history, current_weights)]
    /\ UNCHANGED <<window_size, update_interval, evaluation_history,
                   current_weights, evaluation_count, recorded>>
    /\ UNCHANGED <<boVars, jobVars, impVars, normVars, optVars, sugVars, conVars, srvVars, svcVars>>

\* The values the expected improvement of a candidate can take: the fitted
\* surrogate is sklearn's, and the model leaves its predictions open.
EIValues == {Num(k) : k \in 0..MaxEI}

\* suggest_next, one suggestion of the branch len(evaluated_points) < 3:
\* the raw point drawn and the vector returned for it.
ColdSuggestions(bounds, normalizing) ==
    {[raw |-> r, weights |-> _weights_to_dict(signal_ids_of(bounds), normalizing, r)]
        : r \in RawPoints(bounds)}

\* suggest_next, one suggestion of the fitted branch: the pool drawn, its
\* EI values, and the vector returned for the candidate np.argmax selects.
EISuggestions(bounds, normalizing) ==
    {[raw |-> pool[np_argmax(scores)],
      weights |-> _weights_to_dict(signal_ids_of(bounds), normalizing,
                                   pool[np_argmax(scores)])]
        : pool \in [1..PoolSize -> RawPoints(bounds)],
          scores \in [1..PoolSize -> EIValues]}

\* The first set for every bounds set and normalization flag of the model,
\* tabulated once.
ColdSuggestionsOf ==
    [b \in BoundsSets |-> [nz \in BOOLEAN |-> ColdSuggestions(b, nz)]]

\* The vectors of the second set, tabulated in the same way.
EISuggestedWeightsOf ==
    [b \in BoundsSets |->
        [nz \in BOOLEAN |-> {s.weights : s \in EISuggestions(b, nz)}]]

\* A slip that uses suggest_next's threshold for the window.
GetNextWeights_three ==
    /\ \E explore \in BOOLEAN :
          IF explore
          THEN \E s \in ColdSuggestionsOf[signal_bounds][normalize_weights] :
                  ret' = [op |-> "get_next_weights", branch |-> "explore",
                          value |-> s.weights]
          ELSE IF Len(evaluation_history) < MinPointsForFit
          THEN ret' = [op |-> "get_next_weights", branch |-> "current",
                       value |-> current_weights]
          ELSE \E weights \in EISuggestedWeightsOf[signal_bounds][normalize_weights] :
                  ret' = [op |-> "get_next_weights", branch |-> "fitted",
                          value |-> weights]
    /\ UNCHANGED <<window_size, update_interval, evaluation_history,
                   current_weights, evaluation_count, recorded>>
    /\ UNCHANGED <<boVars, jobVars, impVars, normVars, optVars, sugVars, conVars, srvVars, svcVars>>

\* get_next_weights: explore is the outcome of
\* np.random.random() < self.exploration_rate.
GetNextWeights ==
    /\ \E explore \in BOOLEAN :
          IF explore
          THEN \E s \in ColdSuggestionsOf[signal_bounds][normalize_weights] :
                  ret' = [op |-> "get_next_weights", branch |-> "explore",
                          value |-> s.weights]
          ELSE IF Len(evaluation_history) < MinHistoryForFit
          THEN ret' = [op |-> "get_next_weights", branch |-> "current",
                       value |-> current_weights]
          ELSE \E weights \in EISuggestedWeightsOf[signal_bounds][normalize_weights] :
                  ret' = [op |-> "get_next_weights", branch |-> "fitted",
                          value |-> weights]
    /\ UNCHANGED <<window_size, update_interval, evaluation_history,
                   current_weights, evaluation_count, recorded>>
    /\ UNCHANGED <<boVars, jobVars, impVars, normVars, optVars, sugVars, conVars, srvVars, svcVars>>

\* np.mean over a non-empty array.
Mean(v) == FDiv(FSum(v), Num(Len(v)))

\* get_statistics; score_std (np.std) is a square root and is left out.
get_statistics(history) ==
    IF history = <<>>
    THEN [n_evaluations |-> 0, best_score |-> "None", avg_score |-> "None"]
    ELSE LET scores == ScoresOf(history)
         IN  [n_evaluations |-> Len(history),
              best_score    |-> scores[np_argmax(scores)],
              avg_score     |-> Mean(scores),
              recent_trend  |->
                  IF Len(scores) >= TrendMinScores
                  THEN FSub(Mean(PySliceFrom(scores, -TrendSpan)),
                            Mean(SubSeq(scores, 1, Min(TrendSpan, Len(scores)))))
                  ELSE Zero]

GetStatistics ==
    /\ ret' = [op |-> "get_statistics", value |-> get_statistics(evaluation_history)]
    /\ UNCHANGED <<window_size, update_interval, evaluation_history,
                   current_weights, evaluation_count, recorded>>
    /\ UNCHANGED <<boVars, jobVars, impVars, normVars, optVars, sugVars, conVars, srvVars, svcVars>>

Next ==
    \/ RecordEvaluation
    \/ ShouldUpdate
    \/ GetNextWeights
    \/ GetBestWeights
    \/ GetStatistics

Spec == InitOnline /\ [][Next]_vars

SpecCadence == InitCadence /\ [][Next]_vars

(***************************************************************************)
(* Claims about the sliding window, the cadence gate and get_best_weights. *)
(***************************************************************************)
\* C1: for every window_size the constructor accepts and after any sequence
\* of record_evaluation calls, len(evaluation_history) <= window_size.
C1_HistoryWithinWindow == Len(evaluation_history) <= window_size

\* The last n elements of a sequence (all of it when it is shorter).
LastN(seq, n) == SubSeq(seq, Max(Len(seq) - n, 0) + 1, Len(seq))

\* C2: after window_size + k calls to record_evaluation (k > 0) on a fresh
\* optimizer, evaluation_history is exactly the last window_size recorded
\* pairs, in the order they were recorded.
C2_LastWindowInOrder ==
    evaluation_count > window_size =>
        evaluation_history = LastN(recorded, window_size)

IsMultiple(count, interval, lowest) ==
    \E k \in lowest..Max(count, lowest) : count = k * interval

\* C3 as stated: whenever should_update() returns, it returns true iff
\* evaluation_count is a positive multiple of update_interval, the freshly
\* created optimizer included.
C3_ShouldUpdateIffPositiveMultiple ==
    (ret.op = "should_update" /\ ret.raised = "") =>
        (ret.value <=> IsMultiple(evaluation_count, update_interval, 1))

\* C3 amended: with update_interval >= 1, should_update() returns, and
\* returns true iff evaluation_count is a multiple of update_interval, zero
\* included: on a freshly created optimizer it returns true.
C3_ShouldUpdateIffMultiple ==
    (ret.op = "should_update" /\ update_interval >= 1) =>
        /\ ret.raised = ""
        /\ ret.value <=> IsMultiple(evaluation_count, update_interval, 0)

\* C3 witness: should_update() was called on a fresh optimizer with
\* update_interval >= 2 and returned true.
C3_Witness ==
    /\ ret.op = "should_update"
    /\ update_interval >= 2
    /\ evaluation_count = 0
    /\ ret.raised = ""
    /\ ret.value

\* C4: with zero recorded evaluations get_best_weights() returns the mapping
\* signal_id -> initial_weight given at construction.
C4_BestWeightsOfFreshOptimizer ==
    (ret.op = "get_best_weights" /\ evaluation_count = 0) =>
        /\ DOMAIN ret.value = {signal_bounds[i].signal_id : i \in 1..Len(signal_bounds)}
        /\ \A i \in 1..Len(signal_bounds) :
              ret.value[signal_bounds[i].signal_id] = signal_bounds[i].initial_weight

\* C4 witness: get_best_weights() was called before any evaluation was
\* recorded, on bounds whose initial weights differ from signal to signal.
C4_Witness ==
    /\ ret.op = "get_best_weights"
    /\ evaluation_count = 0
    /\ \E i, j \in 1..Len(signal_bounds) :
          signal_bounds[i].initial_weight /= signal_bounds[j].initial_weight

IsSuffix(a, b) ==
    /\ Len(a) <= Len(b)
    /\ a = SubSeq(b, Len(b) - Len(a) + 1, Len(b))

\* C25: a record_evaluation(weights, score) call puts (weights, score) at
\* the end of evaluation_history (what is left of the history is the old
\* one with the pair appended, less entries evicted from its front; with
\* window_size >= 1 the pair is its last entry) and adds exactly 1 to
\* evaluation_count; no other operation changes either; evaluation_count
\* never decreases and equals the number of record_evaluation calls made,
\* whatever was evicted.
C25_RecordAppendsAndCounts ==
    [][/\ evaluation_count = Len(recorded)
       /\ evaluation_count' = Len(recorded')
       /\ evaluation_count' >= evaluation_count
       /\ \A weights \in CallerWeights, score \in Scores :
             record_evaluation(weights, score) =>
                /\ evaluation_count' = evaluation_count + 1
                /\ IsSuffix(evaluation_history',
                            Append(evaluation_history, <<weights, score>>))
                /\ window_size >= 1 =>
                      evaluation_history'[Len(evaluation_history')] = <<weights, score>>
       /\ (evaluation_history' /= evaluation_history
              \/ evaluation_count' /= evaluation_count) =>
             \E weights \in CallerWeights, score \in Scores :
                  record_evaluation(weights, score)
      ]_vars

\* C25 witness: a third evaluation was recorded on a window of one entry:
\* the count is 3 and the window holds the pair recorded last.
C25_Witness ==
    /\ ret.op = "record_evaluation"
    /\ window_size = 1
    /\ evaluation_count = 3
    /\ evaluation_history = <<recorded[3]>>
    /\ recorded[2] /= recorded[3]

\* C26: for update_interval >= 1 a call of should_update() returns true
\* exactly when evaluation_count mod update_interval = 0, and leaves the
\* window, the count, the current weights and the configuration as they
\* were.
C26_ShouldUpdateIsPureGate ==
    [][(ret'.op = "should_update" /\ update_interval >= 1) =>
          /\ ret'.raised = ""
          /\ ret'.value <=> (evaluation_count % update_interval = 0)
          /\ UNCHANGED <<evaluation_history, evaluation_count, current_weights,
                         window_size, update_interval, signal_bounds, recorded>>
      ]_vars

\* C26 witness: should_update() has returned true after two evaluations
\* with update_interval = 2.
C26_Witness ==
    /\ ret.op = "should_update"
    /\ update_interval = 2
    /\ evaluation_count = 2
    /\ ret.raised = ""
    /\ ret.value

\* The signal_ids of the session.
SessionSignalIds == {signal_bounds[i].signal_id : i \in 1..Len(signal_bounds)}

\* C27: current_weights holds each signal's initial_weight in every
\* reachable state, and no call of record_evaluation, should_update,
\* get_next_weights, get_best_weights or get_statistics changes it.
EngineOperations ==
    {"record_evaluation", "should_update", "get_next_weights",
     "get_best_weights", "get_statistics"}

C27_CurrentWeightsNeverModified ==
    /\ [](/\ DOMAIN current_weights = SessionSignalIds
          /\ \A i \in 1..Len(signal_bounds) :
                current_weights[signal_bounds[i].signal_id] =
                    signal_bounds[i].initial_weight)
    /\ [][ret'.op \in EngineOperations => current_weights' = current_weights]_vars

\* C27 witness: after three recorded evaluations get_next_weights has
\* answered the current weights, which still hold initial weights 0 and 2.
C27_Witness ==
    /\ ret.op = "get_next_weights"
    /\ ret.branch = "current"
    /\ evaluation_count = 3
    /\ current_weights = [s \in {"A", "B"} |-> IF s = "A" THEN Num(0) ELSE Num(2)]
    /\ ret.value = current_weights

\* C31 as stated: get_statistics() reports the count, the maximum and the
\* mean of the scores in the window, and always a recent_trend: the mean of
\* the last 10 scores minus the mean of the first 10 when the window holds
\* at least 20 entries, and 0 when it holds fewer, the empty window
\* included.
C31_StatisticsOverWindow ==
    ret.op = "get_statistics" =>
        LET scores == ScoresOf(evaluation_history)
            n == Len(scores)
        IN  /\ ret.value.n_evaluations = n
            /\ n > 0 =>
                  /\ \E i \in 1..n : ret.value.best_score = scores[i]
                  /\ \A i \in 1..n : FLe(scores[i], ret.value.best_score)
                  /\ ret.value.avg_score = FDiv(FSum(scores), Num(n))
            /\ "recent_trend" \in DOMAIN ret.value
            /\ ret.value.recent_trend =
                   IF n >= 20
                   THEN FSub(FDiv(FSum(SubSeq(scores, n - 9, n)), Num(10)),
                             FDiv(FSum(SubSeq(scores, 1, 10)), Num(10)))
                   ELSE Zero

\* C34: for window_size >= 1, after any sequence of record_evaluation
\* calls the window holds min(evaluation_count, window_size) entries, and
\* get_statistics() reports that number as n_evaluations.
C34_WindowLengthIsMinOfCountAndSize ==
    window_size >= 1 =>
        /\ Len(evaluation_history) =
               (IF evaluation_count < window_size THEN evaluation_count
                ELSE window_size)
        /\ ret.op = "get_statistics" =>
               ret.value.n_evaluations = Len(evaluation_history)

\* C34 witness: get_statistics() has reported 2 evaluations after 3 were
\* recorded in a window of size 2.
C34_Witness ==
    /\ ret.op = "get_statistics"
    /\ window_size = 2
    /\ evaluation_count = 3
    /\ Len(evaluation_history) = 2
    /\ ret.value.n_evaluations = 2

(***************************************************************************)
(* SpecCallers: the online optimizer with callers that report whatever     *)
(* mapping they like.  record_evaluation takes weights: Dict[str, float]   *)
(* and stores it as it comes.                                              *)
(***************************************************************************)
\* The weights such callers report: a vector that lacks signal B, and one
\* over the declared signals whose components sum to 2.
AnyCallerWeights ==
    { [s \in {"A"} |-> Frac(1, 5)],
      [s \in {"A", "B"} |-> One] }

RecordAnyEvaluation ==
    \E weights \in AnyCallerWeights, score \in Scores : record_evaluation(weights, score)

NextCallers ==
    \/ RecordAnyEvaluation
    \/ GetNextWeights
    \/ GetBestWeights

SpecCallers == InitOnline /\ [][NextCallers]_vars


\* C21 as stated: every weight vector the session holds (the entries of
\* evaluation_history, current_weights) or returns (get_best_weights,
\* get_next_weights) has exactly the session's signal_ids as its keys.
C21_VectorsHaveSessionKeys ==
    /\ DOMAIN current_weights = SessionSignalIds
    /\ \A i \in 1..Len(evaluation_history) :
          DOMAIN evaluation_history[i][1] = SessionSignalIds
    /\ ret.op \in {"get_best_weights", "get_next_weights"} =>
          DOMAIN ret.value = SessionSignalIds

\* The sum of the values of a named vector.
RECURSIVE SumOfKeys(_, _)
SumOfKeys(d, keys) ==
    IF keys = {} THEN Zero
    ELSE LET k == CHOOSE k \in keys : TRUE
         IN  FAdd(d[k], SumOfKeys(d, keys \ {k}))

SumOfValues(d) == SumOfKeys(d, DOMAIN d)

\* C22 as stated: in simplex mode every vector passed to objective_fn by
\* optimize, every vector record_evaluation stores in evaluation_history
\* and every vector get_next_weights returns sums to 1.
C22_EveryPointNormalized ==
    normalize_weights =>
        /\ \A i \in 1..Len(all_weights) : SumOfValues(all_weights[i]) = One
        /\ \A i \in 1..Len(evaluation_history) :
              SumOfValues(evaluation_history[i][1]) = One
        /\ ret.op = "get_next_weights" => SumOfValues(ret.value) = One

(***************************************************************************)
(* SpecOptimize: one run of BayesianOptimizer.optimize.  gp_minimize is    *)
(* skopt's: it calls the objective it is given n_calls times, each time    *)
(* with a point of the search space, and returns the first point with the  *)
(* lowest value (result.x) and that value (result.fun).                    *)
(***************************************************************************)
RawPointsOf == [b \in BoundsSets |-> RawPoints(b)]

\* The scores an objective returns.
ObjectiveScores == {Num(k) : k \in (-1)..MaxScore}

InitOptimize ==
    /\ signal_bounds \in BoundsSets
    /\ normalize_weights \in BOOLEAN
    /\ random_state = DefaultRandomState
    /\ opt_pc = "running"
    /\ n_calls \in 1..MaxCalls
    /\ n_initial_points = 1
    /\ initial_remaining = n_initial_points
    /\ phases = <<>>
    /\ x_iters = <<>>
    /\ all_weights = <<>>
    /\ all_scores = <<>>
    /\ convergence_history = <<>>
    /\ result = NoValue
    /\ NormIdle /\ ImpIdle /\ JobIdle /\ OnlineIdle /\ SugIdle /\ ConIdle /\ SrvIdle /\ SvcIdle

\* gp_minimize checks its arguments before the first call of the objective:
\* it wants at least one initial point (no x0 is passed) and n_calls no
\* smaller than n_initial_points, and raises ValueError otherwise.
GpMinimizeAccepts(calls, initial) == initial >= 1 /\ calls >= initial

\* A slip that starts the surrogate one evaluation early.
AskPhase_early(remaining) == IF remaining > 1 THEN "WARMUP" ELSE "MODEL_GUIDED"

\* gp_minimize asks for a random point while initial points remain, and for
\* the point its surrogate and acquisition select afterwards.
AskPhase(remaining) == IF remaining > 0 THEN "WARMUP" ELSE "MODEL_GUIDED"

\* A slip that tracks the latest score instead of the best so far.
TrackBest_latest(history, score) == Append(history, score)

\* wrapped_objective, "Track best so far".
TrackBest(history, score) ==
    IF Len(history) = 0 \/ FLt(history[Len(history)], score)
    THEN Append(history, score)
    ELSE Append(history, history[Len(history)])

\* One call of wrapped_objective(x) by gp_minimize; score is what
\* objective_fn returns for the weights.
wrapped_objective(x, score) ==
    /\ opt_pc = "running"
    /\ GpMinimizeAccepts(n_calls, n_initial_points)
    /\ Len(x_iters) < n_calls
    /\ x_iters' = Append(x_iters, x)
    /\ phases' = Append(phases, AskPhase(initial_remaining))
    /\ initial_remaining' = initial_remaining - 1
    /\ all_weights' = Append(all_weights,
           _weights_to_dict(signal_ids_of(signal_bounds), normalize_weights, x))
    /\ all_scores' = Append(all_scores, score)
    /\ convergence_history' = TrackBest(convergence_history, score)
    /\ UNCHANGED <<opt_pc, n_calls, n_initial_points, result>>
    /\ UNCHANGED <<boVars, jobVars, impVars, normVars, onlineVars, sugVars, srvVars, svcVars>>

WrappedObjective ==
    /\ \E x \in RawPointsOf[signal_bounds], score \in ObjectiveScores :
          wrapped_objective(x, score)
    /\ UNCHANGED conVars

FNeg(a) == <<-a[1], a[2]>>

\* A slip that takes the first point evaluated for the best one.
np_argmin_first(v) == 1

\* np.argmin over the values wrapped_objective returned (the negated scores).
np_argmin(v) == np_argmax([i \in 1..Len(v) |-> FNeg(v[i])])

\* gp_minimize returns; optimize builds the OptimizationResult.
OptimizeReturn ==
    /\ opt_pc = "running"
    /\ GpMinimizeAccepts(n_calls, n_initial_points)
    /\ Len(x_iters) = n_calls
    /\ LET func_vals == [i \in 1..Len(all_scores) |-> FNeg(all_scores[i])]
           best      == np_argmin(func_vals)
       IN  result' =
             [best_weights |-> _weights_to_dict(signal_ids_of(signal_bounds),
                                                normalize_weights, x_iters[best]),
              best_score   |-> FNeg(func_vals[best]),
              n_iterations |-> Len(all_scores),
              convergence_history |-> convergence_history,
              all_weights  |-> all_weights,
              all_scores   |-> all_scores]
    /\ opt_pc' = "done"
    /\ UNCHANGED <<n_calls, n_initial_points, initial_remaining, phases,
                   x_iters, all_weights, all_scores, convergence_history>>
    /\ UNCHANGED <<boVars, jobVars, impVars, normVars, onlineVars, sugVars, conVars, srvVars, svcVars>>

\* objective_fn raises inside wrapped_objective: nothing is appended for the
\* point, and neither wrapped_objective, gp_minimize nor optimize catches
\* the exception, so optimize returns no OptimizationResult; the closure
\* lists keep what they held and go away with the frame.
ObjectiveRaises ==
    /\ opt_pc = "running"
    /\ GpMinimizeAccepts(n_calls, n_initial_points)
    /\ Len(x_iters) < n_calls
    /\ opt_pc' = "raised"
    /\ result' = [raised |-> "Exception"]
    /\ UNCHANGED <<n_calls, n_initial_points, initial_remaining, phases,
                   x_iters, all_weights, all_scores, convergence_history>>
    /\ UNCHANGED <<boVars, jobVars, impVars, normVars, onlineVars, sugVars, conVars, srvVars, svcVars>>

NextOptimize == WrappedObjective \/ ObjectiveRaises \/ OptimizeReturn

SpecOptimize == InitOptimize /\ [][NextOptimize]_vars

\* The largest of the first i elements of a non-empty prefix.
PrefixMax(v, i) ==
    CHOOSE m \in {v[j] : j \in 1..i} : \A j \in 1..i : FLe(v[j], m)

\* C8: in the OptimizationResult of optimize(), convergence_history has length
\* n_iterations = len(all_scores), is non-decreasing, its element i is the
\* maximum of all_scores[0..i], and its last element is max(all_scores).
C8_ConvergenceIsRunningMaximum ==
    opt_pc = "done" =>
        LET h == result.convergence_history
            v == result.all_scores
        IN  /\ result.n_iterations = Len(v)
            /\ Len(h) = result.n_iterations
            /\ \A i \in 1..(Len(h) - 1) : FLe(h[i], h[i + 1])
            /\ \A i \in 1..Len(h) : h[i] = PrefixMax(v, i)
            /\ Len(h) >= 1 => h[Len(h)] = PrefixMax(v, Len(v))

\* C8 witness: a run has returned whose best score came first and was
\* followed by a lower one.
C8_Witness ==
    /\ opt_pc = "done"
    /\ result.n_iterations >= 2
    /\ FLt(result.all_scores[2], result.all_scores[1])
    /\ result.convergence_history[2] = result.all_scores[1]

(***************************************************************************)
(* SpecPhases: one run of optimize for every n_calls and n_initial_points, *)
(* those gp_minimize rejects included.                                     *)
(***************************************************************************)
InitPhases ==
    /\ signal_bounds \in BoundsSets
    /\ normalize_weights = TRUE
    /\ random_state = DefaultRandomState
    /\ opt_pc = "running"
    /\ n_calls \in 1..MaxCalls
    /\ n_initial_points \in 0..MaxInitial
    /\ initial_remaining = n_initial_points
    /\ phases = <<>>
    /\ x_iters = <<>>
    /\ all_weights = <<>>
    /\ all_scores = <<>>
    /\ convergence_history = <<>>
    /\ result = NoValue
    /\ NormIdle /\ ImpIdle /\ JobIdle /\ OnlineIdle /\ SugIdle /\ ConIdle /\ SrvIdle /\ SvcIdle

\* gp_minimize raises ValueError for its arguments; optimize does not catch
\* it, and the objective was never called.
GpMinimizeRejects ==
    /\ opt_pc = "running"
    /\ ~GpMinimizeAccepts(n_calls, n_initial_points)
    /\ opt_pc' = "raised"
    /\ result' = [raised |-> "ValueError"]
    /\ UNCHANGED <<n_calls, n_initial_points, initial_remaining, phases,
                   x_iters, all_weights, all_scores, convergence_history>>
    /\ UNCHANGED <<boVars, jobVars, impVars, normVars, onlineVars, sugVars, conVars, srvVars, svcVars>>

NextPhases ==
    \/ GpMinimizeRejects
    \/ WrappedObjective
    \/ ObjectiveRaises
    \/ OptimizeReturn

SpecPhases == InitPhases /\ [][NextPhases]_vars

\* The objective itself raised (the run failed for the caller's reason).
ObjectiveRaised == opt_pc = "raised" /\ result.raised = "Exception"

\* Evaluation i of a run is WARMUP up to n_initial_points and MODEL_GUIDED
\* after it.
PhasesInOrder ==
    \A i \in 1..Len(phases) :
        phases[i] = IF i <= n_initial_points THEN "WARMUP" ELSE "MODEL_GUIDED"

\* C24 as stated: every run of optimize(n_calls, n_initial_points) whose
\* objective does not raise ends in DONE with exactly n_calls invocations of
\* the objective and n_iterations = n_calls, the first n_initial_points of
\* them WARMUP and the later ones MODEL_GUIDED.
C24_EveryRunCompletes ==
    (opt_pc /= "running" /\ ~ObjectiveRaised) =>
        /\ opt_pc = "done"
        /\ Len(x_iters) = n_calls
        /\ result.n_iterations = n_calls
        /\ PhasesInOrder

\* C24 amended: with 1 <= n_initial_points <= n_calls the objective is
\* invoked at most n_calls times, the run ends (unless the objective raises)
\* in DONE after exactly n_calls invocations with n_iterations = n_calls,
\* evaluation i is WARMUP for i <= n_initial_points and MODEL_GUIDED for
\* every later i; with other arguments the run fails before the objective
\* is invoked at all.
C24_PhasesOfAcceptedRun ==
    IF GpMinimizeAccepts(n_calls, n_initial_points)
    THEN /\ Len(x_iters) <= n_calls
         /\ Len(phases) = Len(x_iters)
         /\ Len(all_scores) = Len(x_iters)
         /\ PhasesInOrder
         /\ opt_pc = "raised" => ObjectiveRaised /\ Len(x_iters) < n_calls
         /\ opt_pc = "done" =>
               /\ Len(x_iters) = n_calls
               /\ result.n_iterations = n_calls
    ELSE /\ x_iters = <<>>
         /\ opt_pc /= "done"
         /\ opt_pc = "raised" => result.raised = "ValueError"

\* C24 witness: a run with n_initial_points = 1 and n_calls = 2 is DONE, its
\* first evaluation WARMUP and its second MODEL_GUIDED.
C24_Witness ==
    /\ opt_pc = "done"
    /\ n_initial_points = 1
    /\ n_calls = 2
    /\ phases = <<"WARMUP", "MODEL_GUIDED">>
    /\ result.n_iterations = 2

(***************************************************************************)
(* SpecSuggest: one call of BayesianOptimizer.suggest_next, an iteration   *)
(* of either loop at a time.  The surrogate (fit, predict) is sklearn's:   *)
(* the EI value of a candidate is left open.                               *)
(***************************************************************************)
\* The evaluated_points argument: a list of the given length over the
\* weights callers report.
EvaluatedPointsOfLen(n) ==
    [i \in 1..n |->
        << CHOOSE w \in CallerWeights : (w["A"] = Frac(1, 5)) <=> (i % 2 = 1),
           Num(i % (MaxScore + 1)) >>]

InitSuggest ==
    /\ signal_bounds \in BoundsSets
    /\ normalize_weights \in BOOLEAN
    /\ random_state = DefaultRandomState
    /\ sug_pc = "called"
    /\ evaluated_points \in {EvaluatedPointsOfLen(n) : n \in 0..MinPointsForFit}
    /\ n_suggestions \in 0..MaxSuggestions
    /\ candidates = <<>>
    /\ suggestions = <<>>
    /\ twin_suggestions = <<>>
    /\ gp_fits = <<>>
    /\ ei = <<>>
    /\ best_idx = 0
    /\ NormIdle /\ ImpIdle /\ JobIdle /\ OnlineIdle /\ OptIdle /\ ConIdle /\ SrvIdle /\ SvcIdle

\* A slip that leaves the first point out of the fit.
GpFitData_tail(signal_ids, points) ==
    [X |-> [i \in 1..(Len(points) - 1) |-> DictToArray(signal_ids, points[i + 1][1])],
     y |-> [i \in 1..(Len(points) - 1) |-> points[i + 1][2]]]

\* The X and y suggest_next builds for gp.fit.
GpFitData(signal_ids, points) ==
    [X |-> [i \in 1..Len(points) |-> DictToArray(signal_ids, points[i][1])],
     y |-> ScoresOf(points)]

\* "if len(evaluated_points) < 3", and for the other branch the fit of the
\* surrogate on all the points.
SuggestEnter ==
    /\ sug_pc = "called"
    /\ sug_pc' = IF Len(evaluated_points) < MinPointsForFit THEN "cold" ELSE "fitted"
    /\ gp_fits' = IF Len(evaluated_points) < MinPointsForFit THEN gp_fits
                  ELSE Append(gp_fits, GpFitData(signal_ids_of(signal_bounds),
                                                 evaluated_points))
    /\ UNCHANGED <<evaluated_points, n_suggestions, candidates, suggestions,
                   twin_suggestions, ei, best_idx>>
    /\ UNCHANGED <<boVars, jobVars, impVars, normVars, onlineVars, optVars, conVars, srvVars, svcVars>>

\* One iteration of "for _ in range(n_suggestions)" of the random branch.
ColdStep ==
    /\ sug_pc = "cold"
    /\ Len(suggestions) < n_suggestions
    /\ \E weights \in RawPointsOf[signal_bounds] :
          /\ candidates' = <<weights>>
          /\ suggestions' = Append(suggestions,
                 _weights_to_dict(signal_ids_of(signal_bounds), normalize_weights,
                                  weights))
    /\ UNCHANGED <<sug_pc, evaluated_points, n_suggestions, twin_suggestions,
                   gp_fits, ei, best_idx>>
    /\ UNCHANGED <<boVars, jobVars, impVars, normVars, onlineVars, optVars, conVars, srvVars, svcVars>>

\* One iteration of the fitted branch, first half: the candidate pool.
DrawCandidates ==
    /\ sug_pc = "fitted"
    /\ Len(suggestions) < n_suggestions
    /\ candidates' \in [1..PoolSize -> RawPointsOf[signal_bounds]]
    /\ sug_pc' = "drawn"
    /\ UNCHANGED <<evaluated_points, n_suggestions, suggestions, twin_suggestions,
                   gp_fits, ei, best_idx>>
    /\ UNCHANGED <<boVars, jobVars, impVars, normVars, onlineVars, optVars, conVars, srvVars, svcVars>>

\* Second half: predict, expected improvement, np.argmax, append.
SelectCandidate ==
    /\ sug_pc = "drawn"
    /\ \E scores \in [1..Len(candidates) -> EIValues] :
          best_idx' = np_argmax(scores)
    /\ suggestions' = Append(suggestions,
           _weights_to_dict(signal_ids_of(signal_bounds), normalize_weights,
                            candidates[best_idx']))
    /\ sug_pc' = "fitted"
    /\ UNCHANGED <<evaluated_points, n_suggestions, candidates, twin_suggestions,
                   gp_fits, ei>>
    /\ UNCHANGED <<boVars, jobVars, impVars, normVars, onlineVars, optVars, conVars, srvVars, svcVars>>

\* "return suggestions" of either branch.
SuggestReturn ==
    /\ sug_pc \in {"cold", "fitted"}
    /\ Len(suggestions) >= n_suggestions
    /\ sug_pc' = "done"
    /\ UNCHANGED <<evaluated_points, n_suggestions, candidates, suggestions,
                   twin_suggestions, gp_fits, ei, best_idx>>
    /\ UNCHANGED <<boVars, jobVars, impVars, normVars, onlineVars, optVars, conVars, srvVars, svcVars>>

NextSuggest ==
    \/ SuggestEnter
    \/ ColdStep
    \/ DrawCandidates
    \/ SelectCandidate
    \/ SuggestReturn

SpecSuggest == InitSuggest /\ [][NextSuggest]_vars

\* A SignalBounds list as the spec's data model wants it.
ValidBounds(bounds) ==
    /\ Len(bounds) >= 1
    /\ \A i \in 1..Len(bounds) :
          /\ FLt(bounds[i].min_weight, bounds[i].max_weight)
          /\ FLe(bounds[i].min_weight, bounds[i].initial_weight)
          /\ FLe(bounds[i].initial_weight, bounds[i].max_weight)

\* Every coordinate of the array within its signal's [min_weight, max_weight].
ArrayWithinBounds(bounds, w) ==
    /\ Len(w) = Len(bounds)
    /\ \A i \in 1..Len(bounds) :
          FLe(bounds[i].min_weight, w[i]) /\ FLe(w[i], bounds[i].max_weight)

\* C9: for valid bounds, every raw candidate suggest_next draws (the point of
\* a cold-start iteration, each point of an EI pool), which is also what
\* get_next_weights returns through it, has each coordinate within its
\* signal's [min_weight, max_weight] before normalization.
C9_RawCandidatesWithinBounds ==
    ValidBounds(signal_bounds) =>
        \A k \in 1..Len(candidates) : ArrayWithinBounds(signal_bounds, candidates[k])

\* C9 witness: a call with n_suggestions = 1 on at least 3 points has
\* returned the candidate selected from a pool drawn within bounds that do
\* not start at 0.
C9_Witness ==
    /\ sug_pc = "done"
    /\ Len(evaluated_points) >= MinPointsForFit
    /\ n_suggestions = 1
    /\ Len(candidates) = PoolSize
    /\ Len(suggestions) = 1
    /\ \E i \in 1..Len(signal_bounds) : FLt(Zero, signal_bounds[i].min_weight)

\* Every component of the named vector within its signal's bounds.
DictWithinBounds(bounds, d) ==
    /\ DOMAIN d = {bounds[i].signal_id : i \in 1..Len(bounds)}
    /\ \A i \in 1..Len(bounds) :
          /\ FLe(bounds[i].min_weight, d[bounds[i].signal_id])
          /\ FLe(d[bounds[i].signal_id], bounds[i].max_weight)

DictSum(bounds, d) == FSum(DictToArray(signal_ids_of(bounds), d))

\* C10 as stated: suggest_next with fewer than 3 evaluated points returns
\* exactly n_suggestions vectors, each with every component within its
\* signal's [min_weight, max_weight] and, in simplex mode, summing to 1.
C10_ColdSuggestionsWithinBoundsAndSimplex ==
    (sug_pc = "done" /\ Len(evaluated_points) < MinPointsForFit) =>
        /\ Len(suggestions) = n_suggestions
        /\ \A k \in 1..Len(suggestions) :
              /\ DictWithinBounds(signal_bounds, suggestions[k])
              /\ normalize_weights => DictSum(signal_bounds, suggestions[k]) = One

\* C10 amended: it returns exactly n_suggestions vectors; in simplex mode
\* each sums to 1 (its components are the normalized ones and need not lie
\* within the declared bounds), and without normalization each has every
\* component within its signal's [min_weight, max_weight].
C10_ColdSuggestions ==
    (sug_pc = "done" /\ Len(evaluated_points) < MinPointsForFit) =>
        /\ Len(suggestions) = n_suggestions
        /\ \A k \in 1..Len(suggestions) :
              IF normalize_weights
              THEN DictSum(signal_bounds, suggestions[k]) = One
              ELSE DictWithinBounds(signal_bounds, suggestions[k])

\* C10 witness: a simplex-mode call with n_suggestions = 2 on fewer than 3
\* points has returned two vectors, one of them with a component outside
\* its signal's bounds.
C10_Witness ==
    /\ sug_pc = "done"
    /\ Len(evaluated_points) < MinPointsForFit
    /\ normalize_weights
    /\ n_suggestions = 2
    /\ Len(suggestions) = 2
    /\ \E k \in 1..2 : ~DictWithinBounds(signal_bounds, suggestions[k])

(***************************************************************************)
(* SpecNextWeights: the online optimizer with the default window, started  *)
(* after 0 to MinHistoryForFit + 1 recorded evaluations, so that both      *)
(* sides of "len(self.evaluation_history) < 5" are reached.                *)
(***************************************************************************)
InitNextWeights ==
    \E bounds \in BoundsSets, n \in 0..(MinHistoryForFit + 1) :
        /\ signal_bounds = bounds
        /\ normalize_weights = TRUE
        /\ random_state = DefaultRandomState
        /\ window_size = DefaultWindowSize
        /\ update_interval = DefaultUpdateInterval
        /\ evaluation_history = EvaluatedPointsOfLen(n)
        /\ current_weights = InitialCurrentWeights(bounds)
        /\ evaluation_count = n
        /\ recorded = EvaluatedPointsOfLen(n)
        /\ ret = [op |-> IF n = 0 THEN "__init__" ELSE "record_evaluation"]
        /\ NormIdle /\ ImpIdle /\ JobIdle /\ OptIdle /\ SugIdle /\ ConIdle /\ SrvIdle /\ SvcIdle

SpecNextWeights == InitNextWeights /\ [][Next]_vars

\* The vectors suggest_next can return for a point drawn within the bounds.
RandomPointsOf ==
    [b \in BoundsSets |->
        [nz \in BOOLEAN |->
            {_weights_to_dict(signal_ids_of(b), nz, r) : r \in RawPoints(b)}]]

RandomPointsOfSearchSpace == RandomPointsOf[signal_bounds][normalize_weights]

\* C28: a call of get_next_weights has one of three outcomes.  When the
\* exploration draw fires, the vector of a random point of the search space,
\* whatever the window holds; otherwise current_weights when the window
\* holds fewer than 5 entries; otherwise one suggestion of the fitted branch
\* of suggest_next over the window.  The call changes neither
\* evaluation_history nor evaluation_count.
C28_NextWeightsOutcomes ==
    [][ret'.op = "get_next_weights" =>
          /\ ret'.branch \in {"explore", "current", "fitted"}
          /\ ret'.branch = "explore" =>
                ret'.value \in RandomPointsOfSearchSpace
          /\ ret'.branch = "current" =>
                /\ Len(evaluation_history) < 5
                /\ ret'.value = current_weights
          /\ ret'.branch = "fitted" =>
                /\ Len(evaluation_history) >= 5
                /\ ret'.value \in RandomPointsOfSearchSpace
          /\ evaluation_history' = evaluation_history
          /\ evaluation_count' = evaluation_count
      ]_vars

\* C28 witness: with exactly 5 entries in the window, get_next_weights has
\* returned a suggestion of the fitted branch.
C28_Witness ==
    /\ ret.op = "get_next_weights"
    /\ ret.branch = "fitted"
    /\ Len(evaluation_history) = 5
    /\ evaluation_count = 5
    /\ ret.value \in RandomPointsOfSearchSpace

\* C29: suggest_next(evaluated_points, n) returns exactly n vectors, for
\* every n >= 0.  With fewer than 3 evaluated points the surrogate is never
\* fitted and every vector is that of a point drawn at random within the
\* bounds; with 3 or more it is fitted once, on all the points supplied, and
\* every vector is that of the candidate selected from a pool by its EI,
\* normalized in simplex mode.
C29_SuggestNextCountAndFit ==
    /\ [](/\ Len(evaluated_points) < 3 => gp_fits = <<>>
          /\ Len(gp_fits) <= 1
          /\ sug_pc = "done" =>
                /\ Len(suggestions) = n_suggestions
                /\ normalize_weights =>
                      \A k \in 1..Len(suggestions) :
                          DictSum(signal_bounds, suggestions[k]) = One
                /\ Len(evaluated_points) >= 3 =>
                      /\ Len(gp_fits) = 1
                      /\ Len(gp_fits[1].X) = Len(evaluated_points)
                      /\ Len(gp_fits[1].y) = Len(evaluated_points)
                      /\ \A i \in 1..Len(evaluated_points) :
                            /\ gp_fits[1].y[i] = evaluated_points[i][2]
                            /\ \A j \in 1..Len(signal_bounds) :
                                  gp_fits[1].X[i][j] =
                                      evaluated_points[i][1][signal_bounds[j].signal_id])
    /\ [][(Len(suggestions') > Len(suggestions)) =>
             IF Len(evaluated_points) < 3
             THEN \E r \in RawPointsOf[signal_bounds] :
                     suggestions' = Append(suggestions,
                         _weights_to_dict(signal_ids_of(signal_bounds),
                                          normalize_weights, r))
             ELSE /\ Len(gp_fits) = 1
                  /\ best_idx' \in 1..Len(candidates)
                  /\ suggestions' = Append(suggestions,
                         _weights_to_dict(signal_ids_of(signal_bounds),
                                          normalize_weights, candidates[best_idx']))
         ]_vars

\* C29 witness: a call with n_suggestions = 2 on 3 evaluated points has
\* returned two vectors after one fit on the 3 points.
C29_Witness ==
    /\ sug_pc = "done"
    /\ Len(evaluated_points) = 3
    /\ n_suggestions = 2
    /\ Len(suggestions) = 2
    /\ Len(gp_fits) = 1
    /\ Len(gp_fits[1].X) = 3
    /\ best_idx >= 1

(***************************************************************************)
(* SpecSelect: the selection step of the fitted branch of suggest_next, on *)
(* pools of 1 to MaxPool candidates, so that several candidates can share  *)
(* the maximal EI.  The call is suggest_next(points, 1) on 3 points, taken *)
(* from the moment the pool has been drawn, and the step is taken in two   *)
(* halves: the computation of ei, then np.argmax and the append.           *)
(***************************************************************************)
\* The two corners of the search space: every coordinate drawn at its
\* min_weight, every coordinate drawn at its max_weight.
CornerPoints(bounds) ==
    { [i \in 1..Len(bounds) |-> bounds[i].min_weight],
      [i \in 1..Len(bounds) |-> bounds[i].max_weight] }

InitSelect ==
    /\ signal_bounds \in BoundsSets
    /\ normalize_weights \in BOOLEAN
    /\ random_state = DefaultRandomState
    /\ sug_pc = "drawn"
    /\ evaluated_points = EvaluatedPointsOfLen(MinPointsForFit)
    /\ n_suggestions = 1
    /\ \E n \in 1..MaxPool : candidates \in [1..n -> CornerPoints(signal_bounds)]
    /\ suggestions = <<>>
    /\ twin_suggestions = <<>>
    /\ gp_fits = <<GpFitData(signal_ids_of(signal_bounds), evaluated_points)>>
    /\ ei = <<>>
    /\ best_idx = 0
    /\ NormIdle /\ ImpIdle /\ JobIdle /\ OnlineIdle /\ OptIdle /\ ConIdle /\ SrvIdle /\ SvcIdle

\* predict and the expected improvement of every candidate of the pool.
ScoreCandidates ==
    /\ sug_pc = "drawn"
    /\ ei' \in [1..Len(candidates) -> EIValues]
    /\ sug_pc' = "scored"
    /\ UNCHANGED <<evaluated_points, n_suggestions, candidates, suggestions,
                   twin_suggestions, gp_fits, best_idx>>
    /\ UNCHANGED <<boVars, jobVars, impVars, normVars, onlineVars, optVars, conVars, srvVars, svcVars>>

\* best_idx = np.argmax(ei) and the append of the candidate it names.
AppendBest ==
    /\ sug_pc = "scored"
    /\ best_idx' = np_argmax(ei)
    /\ suggestions' = Append(suggestions,
           _weights_to_dict(signal_ids_of(signal_bounds), normalize_weights,
                            candidates[best_idx']))
    /\ sug_pc' = "fitted"
    /\ UNCHANGED <<evaluated_points, n_suggestions, candidates, twin_suggestions,
                   gp_fits, ei>>
    /\ UNCHANGED <<boVars, jobVars, impVars, normVars, onlineVars, optVars, conVars, srvVars, svcVars>>

NextSelect ==
    \/ ScoreCandidates
    \/ AppendBest
    \/ SuggestReturn

SpecSelect == InitSelect /\ [][NextSelect]_vars

\* C30: in the fitted branch the selected candidate has an EI that no
\* candidate of the pool exceeds, and every candidate drawn before it has a
\* strictly smaller EI: among candidates sharing the maximal EI the one with
\* the lowest pool index is selected.
C30_FirstMaximalEISelected ==
    best_idx /= 0 =>
        /\ Len(ei) = Len(candidates)
        /\ best_idx \in 1..Len(candidates)
        /\ \A j \in 1..Len(candidates) : FLe(ei[j], ei[best_idx])
        /\ \A j \in 1..(best_idx - 1) : FLt(ei[j], ei[best_idx])
        /\ suggestions[Len(suggestions)] =
               _weights_to_dict(signal_ids_of(signal_bounds), normalize_weights,
                                candidates[best_idx])

\* C30 witness: of three candidates with EI 0, 1, 1 the second has been
\* selected and returned.
C30_Witness ==
    /\ sug_pc = "done"
    /\ Len(candidates) = 3
    /\ ei = <<Num(0), Num(1), Num(1)>>
    /\ best_idx = 2
    /\ candidates[2] /= candidates[3]

(***************************************************************************)
(* SpecImportance: one call of BayesianOptimizer.get_feature_importance on *)
(* an optimizer of 1 to MaxLen signals, with 0 to 5 evaluated points.  The *)
(* fitted kernel's length scales are sklearn's and are left open.          *)
(***************************************************************************)
MinPointsForImportance == 5   \* "if len(evaluated_points) < 5"

\* The bounds of an optimizer that declares n signals with the defaults.
DefaultBoundsOfLen(n) ==
    [i \in 1..n |-> SignalBounds(AllSignalIds[i], Num(0), Num(1), Frac(1, 2))]

\* The (weights, score) pairs a caller supplies for n signals: two vectors
\* over the signals, and one that names none of them.
ImportanceItems(n) ==
    { << [s \in {AllSignalIds[i] : i \in 1..n} |-> Frac(1, n)], Num(0) >>,
      << [s \in {AllSignalIds[i] : i \in 1..n} |-> IF s = "A" THEN One ELSE Zero],
         Num(1) >>,
      << [s \in {"Z"} |-> One], Num(1) >> }

InitImportance ==
    /\ \E n \in 1..MaxLen :
          /\ signal_bounds = DefaultBoundsOfLen(n)
          /\ \E k \in 0..MinPointsForImportance :
                imp_points \in [1..k -> ImportanceItems(n)]
    /\ normalize_weights = TRUE
    /\ random_state = DefaultRandomState
    /\ imp_pc = "called"
    /\ imp_fits = 0
    /\ importance = NoValue
    /\ NormIdle /\ JobIdle /\ OnlineIdle /\ OptIdle /\ SugIdle /\ ConIdle /\ SrvIdle /\ SvcIdle

\* A slip that uses suggest_next's threshold.
ImportanceBranch_three(points) ==
    IF Len(points) < MinPointsForFit THEN "uniform" ELSE "fit"

\* "if len(evaluated_points) < 5"
ImportanceBranch(points) ==
    IF Len(points) < MinPointsForImportance THEN "uniform" ELSE "fit"

\* {s: 1.0 / len(self.signal_ids) for s in self.signal_ids}
UniformImportance(signal_ids) ==
    [s \in {signal_ids[i] : i \in 1..Len(signal_ids)} |-> Frac(1, Len(signal_ids))]

\* w[signal_id] succeeds for every point and every signal.
PointsCoverSignals(signal_ids, points) ==
    \A i \in 1..Len(points), j \in 1..Len(signal_ids) :
        signal_ids[j] \in DOMAIN points[i][1]

\* The values a fitted length scale takes in the model.
LengthScales == {One, Num(2)}

\* importance = 1.0 / (length_scales + 1e-8), divided by its sum.  The
\* 1e-8 keeps a zero length scale from dividing by zero; the length scales
\* here are 1 and 2, and the term is left out.
ImportanceOfScales(signal_ids, length_scales) ==
    LET inverse == [i \in 1..Len(length_scales) |-> FDiv(One, length_scales[i])]
        total == FSum(inverse)
    IN  ZipDict(signal_ids, [i \in 1..Len(inverse) |-> FDiv(inverse[i], total)])

\* The return of line 308.
ImportanceUniform ==
    /\ imp_pc = "called"
    /\ ImportanceBranch(imp_points) = "uniform"
    /\ importance' = UniformImportance(signal_ids_of(signal_bounds))
    /\ imp_pc' = "done"
    /\ UNCHANGED <<imp_points, imp_fits>>
    /\ UNCHANGED <<boVars, jobVars, normVars, onlineVars, optVars, sugVars, conVars, srvVars,
                   svcVars>>

\* w[signal_id] of lines 310-313 on a point that lacks the signal.
ImportanceRaises ==
    /\ imp_pc = "called"
    /\ ImportanceBranch(imp_points) = "fit"
    /\ ~PointsCoverSignals(signal_ids_of(signal_bounds), imp_points)
    /\ importance' = [raised |-> "KeyError"]
    /\ imp_pc' = "raised"
    /\ UNCHANGED <<imp_points, imp_fits>>
    /\ UNCHANGED <<boVars, jobVars, normVars, onlineVars, optVars, sugVars, conVars, srvVars,
                   svcVars>>

\* The fit of lines 316-320 and the importance of lines 323-330.
ImportanceFit ==
    /\ imp_pc = "called"
    /\ ImportanceBranch(imp_points) = "fit"
    /\ PointsCoverSignals(signal_ids_of(signal_bounds), imp_points)
    /\ imp_fits' = imp_fits + 1
    /\ \E length_scales \in [1..Len(signal_bounds) -> LengthScales] :
          importance' = ImportanceOfScales(signal_ids_of(signal_bounds), length_scales)
    /\ imp_pc' = "done"
    /\ UNCHANGED imp_points
    /\ UNCHANGED <<boVars, jobVars, normVars, onlineVars, optVars, sugVars, conVars, srvVars,
                   svcVars>>

NextImportance ==
    \/ ImportanceUniform
    \/ ImportanceRaises
    \/ ImportanceFit

SpecImportance == InitImportance /\ [][NextImportance]_vars

\* C32: get_feature_importance with fewer than 5 evaluated points returns
\* one entry per declared signal, each 1/n for n signals, without fitting a
\* model and whatever the points supplied are.
C32_UniformImportanceBelowFive ==
    (imp_pc \in {"done", "raised"} /\ Len(imp_points) < 5) =>
        /\ imp_pc = "done"
        /\ imp_fits = 0
        /\ DOMAIN importance = SessionSignalIds
        /\ \A s \in SessionSignalIds :
              importance[s] = <<1, Len(signal_bounds)>>

\* C32 witness: a call on an optimizer of 3 signals with 4 points, one of
\* them naming none of the signals, has returned.
C32_Witness ==
    /\ imp_pc = "done"
    /\ Len(signal_bounds) = 3
    /\ Len(imp_points) = 4
    /\ \E i \in 1..4 : DOMAIN imp_points[i][1] = {"Z"}
    /\ imp_fits = 0
    /\ importance["C"] = <<1, 3>>

(***************************************************************************)
(* SpecSeeded: two BayesianOptimizer instances constructed with the same   *)
(* bounds and the same random_state, and the same call suggest_next([], 1) *)
(* (the call get_next_weights makes when it explores) on each.  Both calls *)
(* draw from np.random, the generator of the process, which no code of the *)
(* repository seeds: self.random_state goes to gp_minimize and to the      *)
(* GaussianProcessRegressor only.                                          *)
(***************************************************************************)
\* The random_state arguments of the model.
Seeds == {DefaultRandomState, 7}

InitSeeded ==
    /\ signal_bounds \in BoundsSets
    /\ normalize_weights = TRUE
    /\ random_state \in Seeds
    /\ sug_pc = "called"
    /\ evaluated_points = <<>>
    /\ n_suggestions = 1
    /\ candidates = <<>>
    /\ suggestions = <<>>
    /\ twin_suggestions = <<>>
    /\ gp_fits = <<>>
    /\ ei = <<>>
    /\ best_idx = 0
    /\ NormIdle /\ ImpIdle /\ JobIdle /\ OnlineIdle /\ OptIdle /\ ConIdle /\ SrvIdle /\ SvcIdle

\* One iteration of the random branch of the same call on the second
\* instance: its own draw from np.random.
TwinColdStep ==
    /\ sug_pc \in {"cold", "done"}
    /\ Len(twin_suggestions) < n_suggestions
    /\ \E weights \in RawPointsOf[signal_bounds] :
          twin_suggestions' = Append(twin_suggestions,
              _weights_to_dict(signal_ids_of(signal_bounds), normalize_weights,
                               weights))
    /\ UNCHANGED <<sug_pc, evaluated_points, n_suggestions, candidates, suggestions,
                   gp_fits, ei, best_idx>>
    /\ UNCHANGED <<boVars, jobVars, impVars, normVars, onlineVars, optVars, conVars, srvVars, svcVars>>

NextSeeded ==
    \/ SuggestEnter
    \/ ColdStep
    \/ TwinColdStep
    \/ SuggestReturn

SpecSeeded == InitSeeded /\ [][NextSeeded]_vars

\* C23 as stated: two instances built with the same bounds and the same
\* random_state, given the same call, return identical suggestions.
C23_SameSeedSameSuggestions ==
    (sug_pc = "done" /\ Len(twin_suggestions) = n_suggestions) =>
        twin_suggestions = suggestions

(***************************************************************************)
(* SpecConstrained: one run of BayesianOptimizer.optimize_with_constraints *)
(* (normalize_weights as the constructor defaults it).  It hands           *)
(* penalized_objective to optimize, so every call gp_minimize makes goes   *)
(* through wrapped_objective with penalized_objective as its objective_fn. *)
(***************************************************************************)
\* penalty: float = -1000.0
DefaultPenalty == Num(-1000)

\* The constraint_fn arguments of the model: none given, one that rejects
\* every point, one that accepts the points whose weight of A is at most 1/2.
ConstraintFns == {"None", "never", "A_at_most_half"}

\* constraint_fn(weights) for a constraint_fn that was given.
constraint_holds(fn, weights) ==
    CASE fn = "never"          -> FALSE
      [] fn = "A_at_most_half" -> FLe(weights["A"], Frac(1, 2))

\* "constraint_fn and not constraint_fn(weights)"
Infeasible(fn, weights) == fn /= "None" /\ ~constraint_holds(fn, weights)

\* A slip that evaluates the objective whatever the constraint says.
penalized_objective_unconstrained(fn, pen, weights, objective_score) ==
    objective_score

\* penalized_objective(weights); objective_score is what objective_fn
\* returns for the weights when it is called.
penalized_objective(fn, pen, weights, objective_score) ==
    IF Infeasible(fn, weights) THEN pen ELSE objective_score

InitConstrained ==
    /\ signal_bounds \in BoundsSets
    /\ normalize_weights = TRUE
    /\ random_state = DefaultRandomState
    /\ opt_pc = "running"
    /\ n_calls \in 1..MaxCalls
    /\ n_initial_points = 1
    /\ initial_remaining = n_initial_points
    /\ phases = <<>>
    /\ x_iters = <<>>
    /\ all_weights = <<>>
    /\ all_scores = <<>>
    /\ convergence_history = <<>>
    /\ result = NoValue
    /\ constraint_fn \in ConstraintFns
    /\ penalty \in {DefaultPenalty, Zero}
    /\ objective_calls = <<>>
    /\ NormIdle /\ ImpIdle /\ JobIdle /\ OnlineIdle /\ SugIdle /\ SrvIdle /\ SvcIdle

\* One call of wrapped_objective(x) by gp_minimize with penalized_objective
\* as objective_fn: objective_fn of the caller runs for feasible points only.
PenalizedObjective ==
    /\ \E x \in RawPointsOf[signal_bounds], objective_score \in ObjectiveScores :
          LET weights == _weights_to_dict(signal_ids_of(signal_bounds),
                                          normalize_weights, x)
          IN  /\ wrapped_objective(x, penalized_objective(constraint_fn, penalty,
                                                          weights, objective_score))
              /\ objective_calls' =
                    IF Infeasible(constraint_fn, weights)
                    THEN objective_calls
                    ELSE Append(objective_calls, weights)
    /\ UNCHANGED <<constraint_fn, penalty>>

NextConstrained == PenalizedObjective \/ OptimizeReturn

SpecConstrained == InitConstrained /\ [][NextConstrained]_vars

\* The elements of a list of weights for which the constraint lets the
\* objective run, in order.
RECURSIVE FeasibleOf(_, _)
FeasibleOf(fn, ws) ==
    IF ws = <<>> THEN <<>>
    ELSE IF Infeasible(fn, Head(ws)) THEN FeasibleOf(fn, Tail(ws))
         ELSE <<Head(ws)>> \o FeasibleOf(fn, Tail(ws))

\* C11: in optimize_with_constraints every infeasible point is recorded with
\* score = penalty and the caller's objective is not invoked for it (it is
\* invoked for exactly the feasible points, in order); the point still takes
\* one of the n_calls calls and enters all_scores and convergence_history;
\* with a predicate that is always false every recorded score is the penalty.
C11_InfeasiblePointsGetPenalty ==
    opt_pc \in {"running", "done"} =>
        /\ Len(all_weights) = Len(x_iters)
        /\ Len(all_scores) = Len(x_iters)
        /\ Len(convergence_history) = Len(x_iters)
        /\ Len(x_iters) <= n_calls
        /\ opt_pc = "done" => Len(x_iters) = n_calls /\ result.all_scores = all_scores
        /\ \A i \in 1..Len(all_weights) :
              /\ Infeasible(constraint_fn, all_weights[i]) => all_scores[i] = penalty
              /\ convergence_history[i] = PrefixMax(all_scores, i)
        /\ objective_calls = FeasibleOf(constraint_fn, all_weights)
        /\ constraint_fn = "never" =>
              /\ objective_calls = <<>>
              /\ \A i \in 1..Len(all_scores) : all_scores[i] = penalty

\* C11 witness: a constrained run has returned in which an infeasible point
\* was recorded with the penalty after a feasible one was evaluated.
C11_Witness ==
    /\ opt_pc = "done"
    /\ constraint_fn = "A_at_most_half"
    /\ penalty = DefaultPenalty
    /\ Len(objective_calls) = 1
    /\ result.n_iterations = 2
    /\ ~Infeasible(constraint_fn, result.all_weights[1])
    /\ Infeasible(constraint_fn, result.all_weights[2])
    /\ result.all_scores[2] = penalty
    /\ result.convergence_history[2] = result.all_scores[1]

\* C17 as stated: when objective_fn raises on the k-th evaluation of a run,
\* the k-1 (weights, score) pairs collected before it are part of what the
\* run hands back.
C17_PartialResultsPreserved ==
    (opt_pc = "raised" /\ Len(all_scores) >= 1) =>
        /\ DOMAIN result = {"raised", "all_weights", "all_scores"}
        /\ result.all_weights = all_weights
        /\ result.all_scores = all_scores

(***************************************************************************)
(* api/optimizer_server.py: the optimizer endpoints.  A handler runs on    *)
(* the event loop from its first line to its return or to its await, so a  *)
(* handler without await is one step; suggest_weights is the step up to    *)
(* its await (the callable submitted to the executor), the worker thread   *)
(* that starts the callable, and the step in which the callable returns    *)
(* and the handler resumes.  Other threads of control run between them.    *)
(***************************************************************************)
MaxRecords  == 1   \* evaluations recorded in one run, all sessions together
MaxClients  == 1   \* clients of SpecServer
MaxTrials   == 2   \* trials asked of one Optuna study

MaxWorkers == 4             \* executor = ThreadPoolExecutor(max_workers=4)
ServerWindowSize == 100     \* create_optimizer: window_size=100
ServerUpdateInterval == 10  \* create_optimizer: update_interval=10
DefaultSuggestions == 1     \* SuggestRequest: n_suggestions: int = 1
NotFound == 404             \* HTTPException(status_code=404, ...)

\* The optimizer ids requests carry: the two ids the server issues in one
\* run, of which one not issued yet or deleted is unknown to it.
RequestIds == {1, 2}

\* The signal_bounds of a create request: the defaults for two signals, an
\* initial_weight outside [min_weight, max_weight], an empty list, and
\* min_weight = max_weight.
CreateBoundsSets ==
    { << SignalBounds("A", Num(0), Num(1), Frac(1, 2)),
         SignalBounds("B", Num(0), Num(1), Frac(1, 2)) >>,
      << SignalBounds("A", Num(0), Num(1), Num(2)) >>,
      << >>,
      << SignalBounds("A", Num(1), Num(1), Num(1)) >> }

\* The (weights, score) pairs of an evaluate request.  json.loads reads the
\* literals NaN and Infinity, and the float fields of EvaluationRequest
\* accept them.
EvaluationInputs ==
    { << [s \in {"A", "B"} |-> IF s = "A" THEN Frac(1, 5) ELSE Frac(4, 5)], Num(1) >>,
      << [s \in {"A", "B"} |-> IF s = "A" THEN Frac(4, 5) ELSE Frac(1, 5)], NaN >>,
      << [s \in {"A", "B"} |-> IF s = "A" THEN Frac(4, 5) ELSE Frac(1, 5)], PosInf >>,
      << [s \in {"A", "B"} |-> IF s = "A" THEN NaN ELSE Frac(1, 5)], Num(0) >> }

\* A slip that hands out the same id again and again.
uuid4_repeated(count) == 1

\* str(uuid.uuid4()): a value that no earlier call returned.
uuid4(count) == count + 1

\* skopt's Real(low, high) raises ValueError unless low < high
\* (BayesianOptimizer.__init__, self.dimensions).
RealRaises(bounds) ==
    \E i \in 1..Len(bounds) : ~FLt(bounds[i].min_weight, bounds[i].max_weight)

\* OnlineBayesianOptimizer(signal_bounds=bounds, window_size=100,
\* update_interval=10): the fields of the new object.
NewOptimizer(bounds) ==
    [signal_bounds      |-> bounds,
     window_size        |-> ServerWindowSize,
     update_interval    |-> ServerUpdateInterval,
     evaluation_history |-> <<>>,
     current_weights    |-> InitialCurrentWeights(bounds),
     evaluation_count   |-> 0]

\* A slip that records the pair and leaves the counter alone.
RecordOn_uncounted(o, weights, score) ==
    [o EXCEPT !.evaluation_history =
                  TrimmedHistory(Append(@, <<weights, score>>), o.window_size)]

\* optimizer.record_evaluation(weights, score) on an object.
RecordOn(o, weights, score) ==
    [o EXCEPT !.evaluation_history =
                  TrimmedHistory(Append(@, <<weights, score>>), o.window_size),
              !.evaluation_count = @ + 1]

\* optimizer.get_next_weights() on an object: the values it can return.
NextWeightsOf(o) ==
    {c.weights : c \in ColdSuggestions(o.signal_bounds, TRUE)}
    \cup (IF Len(o.evaluation_history) < MinHistoryForFit
          THEN {o.current_weights}
          ELSE {c.weights : c \in EISuggestions(o.signal_bounds, TRUE)})

\* d[k] = v on a dict.
DictSet(d, k, v) == [i \in DOMAIN d \cup {k} |-> IF i = k THEN v ELSE d[i]]

\* del d[k].
DictDel(d, k) == [i \in DOMAIN d \ {k} |-> d[i]]

\* A slip that serves every request from the first optimizer constructed.
optimizer_of_first(registry, id) == 1

\* optimizer = active_optimizers[request.optimizer_id]
optimizer_of(registry, id) == registry[id]

\* The response is rendered with json.dumps(..., allow_nan=False), which
\* raises ValueError on a float that is no number.
WeightsFinite(w) == \A k \in DOMAIN w : IsFinite(w[k])
ScoresFinite(history) == \A i \in 1..Len(history) : IsFinite(history[i][2])
StatusOf(compliant) == IF compliant THEN 200 ELSE 500

Response(endpoint, id, status, body) ==
    [endpoint |-> endpoint, optimizer_id |-> id, status |-> status, body |-> body]

\* raise HTTPException(status_code=404, detail="Optimizer not found")
RaiseNotFound(endpoint, id) ==
    /\ response' = Response(endpoint, id, NotFound, "Optimizer not found")
    /\ UNCHANGED <<active_optimizers, heap, uuid_count, work_queue, running, clients>>

TotalRecords == FSum([a \in 1..Len(heap) |-> Num(heap[a].evaluation_count)])[1]

InFlight == Len(work_queue) + BagCardinality(running)

ServerFrame ==
    UNCHANGED <<boVars, jobVars, impVars, normVars, onlineVars, optVars, sugVars, conVars, svcVars>>

\* POST /optimizer/create with the signal_bounds the clients of the run send.
create_optimizer ==
    /\ uuid_count < Cardinality(RequestIds)
    /\ uuid_count' = uuid_count + 1
    /\ LET optimizer_id == uuid4(uuid_count)
       IN  IF RealRaises(signal_bounds)
           THEN /\ response' = Response("create", optimizer_id, 500, "ValueError")
                /\ UNCHANGED <<active_optimizers, heap>>
           ELSE /\ heap' = Append(heap, NewOptimizer(signal_bounds))
                /\ active_optimizers' =
                       DictSet(active_optimizers, optimizer_id, Len(heap) + 1)
                /\ response' =
                       Response("create", optimizer_id, 200,
                                [signal_ids |-> signal_ids_of(signal_bounds),
                                 initial_weights |->
                                     InitialCurrentWeights(signal_bounds)])
    /\ UNCHANGED <<work_queue, running, clients>>
    /\ ServerFrame

\* POST /optimizer/evaluate: the handler, which has no await and so runs
\* as one step of the event loop.
record_evaluation_handler(id, weights, score) ==
    /\ IF id \notin DOMAIN active_optimizers
       THEN RaiseNotFound("evaluate", id)
       ELSE LET optimizer == optimizer_of(active_optimizers, id)
                o == RecordOn(heap[optimizer], weights, score)
            IN  /\ heap' = [heap EXCEPT ![optimizer] = o]
                /\ response' =
                       Response("evaluate", id,
                                StatusOf(ScoresFinite(o.evaluation_history)),
                                [recorded |-> TRUE,
                                 should_update |->
                                     should_update(o.evaluation_count,
                                                   o.update_interval),
                                 n_evaluations |-> Len(o.evaluation_history)])
                /\ UNCHANGED <<active_optimizers, uuid_count, work_queue,
                               running, clients>>
    /\ ServerFrame

\* POST /optimizer/evaluate, for at most MaxRecords recorded evaluations.
record_evaluation_endpoint(id, weights, score) ==
    /\ id \in DOMAIN active_optimizers => TotalRecords < MaxRecords
    /\ record_evaluation_handler(id, weights, score)

RecordEvaluationEndpoint ==
    \E id \in RequestIds, e \in EvaluationInputs :
        record_evaluation_endpoint(id, e[1], e[2])

\* POST /optimizer/suggest, up to the await: the callable is submitted.
suggest_weights(id, n) ==
    /\ IF id \notin DOMAIN active_optimizers
       THEN RaiseNotFound("suggest", id)
       ELSE /\ InFlight < clients
            /\ work_queue' =
                   Append(work_queue,
                          [optimizer_id |-> id,
                           optimizer |-> optimizer_of(active_optimizers, id),
                           n_suggestions |-> n])
            /\ response' = Response("suggest", id, 0, "awaiting")
            /\ UNCHANGED <<active_optimizers, heap, uuid_count, running, clients>>
    /\ ServerFrame

SuggestWeights == \E id \in RequestIds : suggest_weights(id, DefaultSuggestions)

\* A worker thread of the executor takes the oldest submitted callable.
WorkerStart ==
    /\ work_queue /= <<>>
    /\ BagCardinality(running) < MaxWorkers
    /\ running' = running (+) SetToBag({Head(work_queue)})
    /\ work_queue' = Tail(work_queue)
    /\ UNCHANGED <<active_optimizers, heap, uuid_count, clients, response>>
    /\ ServerFrame

\* The callable returns [optimizer.get_next_weights() for _ in range(n)],
\* and suggest_weights resumes after its await and returns.
SuggestResume ==
    /\ \E t \in BagToSet(running) :
          LET o == heap[t.optimizer]
              best == get_best_weights(o.evaluation_history, o.current_weights)
          IN  /\ running' = running (-) SetToBag({t})
              /\ \E sugg \in [1..t.n_suggestions -> NextWeightsOf(o)] :
                    response' =
                        Response("suggest", t.optimizer_id,
                                 StatusOf(WeightsFinite(best)),
                                 [suggestions |-> sugg, best_weights |-> best])
    /\ UNCHANGED <<active_optimizers, heap, uuid_count, work_queue, clients>>
    /\ ServerFrame

\* GET /optimizer/{optimizer_id}/best
get_best_weights_endpoint(id) ==
    /\ IF id \notin DOMAIN active_optimizers
       THEN RaiseNotFound("best", id)
       ELSE LET o == heap[optimizer_of(active_optimizers, id)]
                best == get_best_weights(o.evaluation_history, o.current_weights)
            IN  /\ response' =
                       Response("best", id,
                                StatusOf(WeightsFinite(best)
                                         /\ ScoresFinite(o.evaluation_history)),
                                [best_weights |-> best,
                                 n_evaluations |-> Len(o.evaluation_history)])
                /\ UNCHANGED <<active_optimizers, heap, uuid_count, work_queue,
                               running, clients>>
    /\ ServerFrame

GetBestWeightsEndpoint == \E id \in RequestIds : get_best_weights_endpoint(id)

\* A slip in the manner of delete_combiner: no membership test, always 200.
delete_optimizer_lenient(id) ==
    /\ active_optimizers' = DictDel(active_optimizers, id)
    /\ response' = Response("delete", id, 200, [deleted |-> TRUE])
    /\ UNCHANGED <<heap, uuid_count, work_queue, running, clients>>
    /\ ServerFrame

\* DELETE /optimizer/{optimizer_id}
delete_optimizer(id) ==
    /\ IF id \notin DOMAIN active_optimizers
       THEN RaiseNotFound("delete", id)
       ELSE /\ active_optimizers' = DictDel(active_optimizers, id)
            /\ response' = Response("delete", id, 200, [deleted |-> TRUE])
            /\ UNCHANGED <<heap, uuid_count, work_queue, running, clients>>
    /\ ServerFrame

DeleteOptimizer == \E id \in RequestIds : delete_optimizer(id)

ServerInit(bounds, n_clients) ==
    /\ signal_bounds = bounds
    /\ normalize_weights = TRUE
    /\ random_state = DefaultRandomState
    /\ active_optimizers = <<>>
    /\ heap = <<>>
    /\ uuid_count = 0
    /\ work_queue = <<>>
    /\ running = EmptyBag
    /\ clients = n_clients
    /\ response = Response("none", 0, 0, "none")
    /\ NormIdle /\ ImpIdle /\ JobIdle /\ OnlineIdle /\ OptIdle /\ SugIdle /\ ConIdle /\ SvcIdle

\* SpecServer: the server from its start, with MaxClients clients that all
\* send the same signal_bounds when they create a session.
InitServer == \E bounds \in CreateBoundsSets : ServerInit(bounds, MaxClients)

NextServer ==
    \/ create_optimizer
    \/ RecordEvaluationEndpoint
    \/ SuggestWeights
    \/ WorkerStart
    \/ SuggestResume
    \/ GetBestWeightsEndpoint
    \/ DeleteOptimizer

SpecServer == InitServer /\ [][NextServer]_vars

\* SpecRecords: one kind of client, which creates sessions with the default
\* bounds, records up to MaxAccepted evaluations and asks for suggestions
\* while it does.
MaxAccepted == 2   \* evaluations recorded in one run of SpecRecords

InitRecords ==
    ServerInit(<< SignalBounds("A", Num(0), Num(1), Frac(1, 2)),
                  SignalBounds("B", Num(0), Num(1), Frac(1, 2)) >>,
               MaxClients)

RecordAccepted ==
    \E id \in RequestIds, e \in EvaluationInputs :
        /\ id \in DOMAIN active_optimizers => TotalRecords < MaxAccepted
        /\ record_evaluation_handler(id, e[1], e[2])

NextRecords ==
    \/ create_optimizer
    \/ RecordAccepted
    \/ SuggestWeights
    \/ WorkerStart
    \/ SuggestResume

SpecRecords == InitRecords /\ [][NextRecords]_vars

\* SpecPool: the server under MaxWorkers + 1 clients that create sessions
\* with the default bounds and ask for suggestions and best weights.
InitPool ==
    ServerInit(<< SignalBounds("A", Num(0), Num(1), Frac(1, 2)),
                  SignalBounds("B", Num(0), Num(1), Frac(1, 2)) >>,
               MaxWorkers + 1)

NextPool ==
    \/ create_optimizer
    \/ SuggestWeights
    \/ WorkerStart
    \/ SuggestResume
    \/ GetBestWeightsEndpoint

SpecPool == InitPool /\ [][NextPool]_vars

(***************************************************************************)
(* api/optimizer_server.py, batch jobs.  batch_optimize puts the job in    *)
(* optimization_jobs and adds run_optimization as a background task, which *)
(* the server runs after the response is sent; other handlers run in       *)
(* between.  run_optimization is a coroutine without an await: it runs to  *)
(* its end as one step of the event loop.  The points suggest_next returns *)
(* do not influence the job's course; the result keeps their number.       *)
(***************************************************************************)
MaxJobs == 2   \* batch requests in one run

MinCalls == 10          \* OptimizeRequest: n_calls ... ge=10
MinInitialPoints == 5   \* OptimizeRequest: n_initial_points ... ge=5

\* The job ids of job-status requests: the ids batch_optimize can issue in
\* one run and one it never issues.
JobIds == 1..(MaxJobs + 1)

\* The objective_scores of a batch request: None (an empty list takes the
\* same branch), one point, one point whose score is NaN, three points, three points of which one
\* has no weight for signal A, and an item without "score".
ObjectiveScoresInputs ==
    LET p(a, b, y) == [weights |-> [s \in {"A", "B"} |-> IF s = "A" THEN a ELSE b],
                       score |-> y]
    IN  { NoValue,
          << p(Frac(1, 5), Frac(4, 5), Num(1)) >>,
          << p(Frac(1, 5), Frac(4, 5), NaN) >>,
          << p(Frac(1, 5), Frac(4, 5), Num(1)), p(Frac(4, 5), Frac(1, 5), Num(0)),
             p(Frac(1, 2), Frac(1, 2), Num(2)) >>,
          << p(Frac(1, 5), Frac(4, 5), Num(1)), p(Frac(4, 5), Frac(1, 5), Num(0)),
             [weights |-> [s \in {"B"} |-> One], score |-> Num(2)] >>,
          << [weights |-> [s \in {"A", "B"} |-> Frac(1, 2)]] >> }

\* optimization_jobs[job_id] = {"status": "running", "progress": 0,
\* "result": None}
NewJob == [status |-> "running", progress |-> 0, result |-> NoValue]

\* A slip that marks the job completed and leaves its progress alone.
CompletedJob_unfinished(job, job_result) ==
    [job EXCEPT !.result = job_result, !.status = "completed"]

\* The three assignments of the try block that ran to its end.
CompletedJob(job, job_result) ==
    [job EXCEPT !.result = job_result, !.status = "completed", !.progress = 100]

\* The two assignments of the except block.
FailedJob(job, error) == DictSet([job EXCEPT !.status = "failed"], "error", error)

\* The exception the try block of run_optimization raises for a task, or
\* "None" when it runs to its end: Real(low, high) in the constructor,
\* s["weights"] and s["score"] on the items, w[signal_id] and gp.fit in
\* suggest_next (which looks at the points only if there are three).
RunOptimizationRaises(task) ==
    LET scores == task.objective_scores
        ids    == signal_ids_of(task.signal_bounds)
        points == [i \in 1..Len(scores) |-> <<scores[i].weights, scores[i].score>>]
    IN  IF RealRaises(task.signal_bounds) THEN "ValueError"
        ELSE IF scores = NoValue THEN "None"
        ELSE IF \E i \in 1..Len(scores) : {"weights", "score"} \ DOMAIN scores[i] /= {}
             THEN "KeyError"
        ELSE IF Len(points) < MinPointsForFit THEN "None"
        ELSE IF ~PointsCoverSignals(ids, points) THEN "KeyError"
        ELSE IF \/ ids = <<>>
                \/ \E i \in 1..Len(points) :
                      \/ ~IsFinite(points[i][2])
                      \/ \E j \in 1..Len(ids) : ~IsFinite(points[i][1][ids[j]])
             THEN "ValueError"
        ELSE "None"

\* optimization_jobs[job_id]["result"] of either branch.
JobResult(task) ==
    IF task.objective_scores /= NoValue
    THEN [n_suggestions |-> task.n_calls,
          evaluated_points |-> task.objective_scores]
    ELSE [n_suggestions |-> task.n_initial_points,
          message |-> "Provide evaluated scores to continue optimization"]

\* The job dict is rendered with allow_nan=False.
JobIsFinite(job) ==
    \/ job.result = NoValue
    \/ "evaluated_points" \notin DOMAIN job.result
    \/ \A i \in 1..Len(job.result.evaluated_points) :
          IsFinite(job.result.evaluated_points[i].score)

JobFrame ==
    /\ UNCHANGED <<active_optimizers, heap, work_queue, running, clients>>
    /\ UNCHANGED <<boVars, impVars, normVars, onlineVars, optVars, sugVars, conVars,
                   svcVars>>

\* POST /optimizer/batch
batch_optimize ==
    /\ uuid_count < MaxJobs
    /\ uuid_count' = uuid_count + 1
    /\ \E bounds \in CreateBoundsSets, scores \in ObjectiveScoresInputs :
          LET job_id == uuid4(uuid_count)
          IN  /\ optimization_jobs' = DictSet(optimization_jobs, job_id, NewJob)
              /\ background_tasks' =
                     background_tasks \cup
                         {[job_id |-> job_id,
                           signal_bounds |-> bounds,
                           n_calls |-> MinCalls,
                           n_initial_points |-> MinInitialPoints,
                           objective_scores |-> scores]}
              /\ response' = Response("batch", job_id, 200, [status |-> "started"])
    /\ JobFrame

\* A background task runs: run_optimization from its first line to its
\* last.
run_optimization ==
    /\ \E task \in background_tasks :
          LET job == optimization_jobs[task.job_id]
              raised == RunOptimizationRaises(task)
          IN  /\ background_tasks' = background_tasks \ {task}
              /\ optimization_jobs' =
                     [optimization_jobs EXCEPT ![task.job_id] =
                         IF raised = "None"
                         THEN CompletedJob(job, JobResult(task))
                         ELSE FailedJob(job, raised)]
    /\ UNCHANGED <<uuid_count, response>>
    /\ JobFrame

\* GET /optimizer/job/{job_id}
get_optimization_job(job_id) ==
    /\ IF job_id \notin DOMAIN optimization_jobs
       THEN response' = Response("job", job_id, NotFound, "Job not found")
       ELSE response' = Response("job", job_id,
                                 StatusOf(JobIsFinite(optimization_jobs[job_id])),
                                 optimization_jobs[job_id])
    /\ UNCHANGED <<uuid_count, optimization_jobs, background_tasks>>
    /\ JobFrame

GetOptimizationJob == \E job_id \in JobIds : get_optimization_job(job_id)

\* SpecJobs: the server from its start under batch and job-status requests.
InitJobs == ServerInit(<<>>, 0)

NextJobs ==
    \/ batch_optimize
    \/ run_optimization
    \/ GetOptimizationJob

SpecJobs == InitJobs /\ [][NextJobs]_vars

(***************************************************************************)
(* services/optimizer-server/app: main.py, the endpoints over Optuna       *)
(* studies, and optuna_optimizer.py, the OptunaOptimizer each registry     *)
(* entry holds.  Every handler of main.py is a coroutine without an await, *)
(* so it runs to its end on the event loop: one action per request.  The   *)
(* parameter values Optuna samples for a trial do not influence which      *)
(* branch a handler takes and are left out of the trial.                   *)
(***************************************************************************)

\* The sampler names create requests carry: a known one and an unknown one.
Samplers == {"tpe", "annealing"}

KnownSamplers == {"tpe", "cmaes", "random", "grid"}

\* The scores report requests carry.
ReportScores == {Num(0), Num(1)}

\* OptunaOptimizer.__init__ after a known sampler: an empty study
\* (direction "maximize", the request's default) and no running trial.
\* best_trial is the study's best trial: {} while no trial is complete.
\* samplable says whether trial.suggest_float / suggest_int /
\* suggest_categorical accept every parameter definition of the session
\* (they raise for low > high, a missing bound or missing choices); the
\* constructor stores the definitions unchecked.
OptunaNew(sampler) ==
    [sampler |-> sampler, trials |-> <<>>, running_trials |-> {}, best_trial |-> {},
     samplable |-> TRUE]

\* OptunaOptimizer.suggest on definitions Optuna cannot sample: the first
\* study.ask() adds a RUNNING trial to the study, and the suggest_* call
\* that follows raises before the trial is stored in _running_trials.
OptunaSuggestRaises(o) ==
    [o EXCEPT !.trials = Append(@, [state |-> "RUNNING", value |-> NoValue])]

\* OptunaOptimizer.suggest: n_suggestions times study.ask(), each a new
\* RUNNING trial numbered len(study.trials), kept in _running_trials.
RECURSIVE OptunaSuggest(_, _)
OptunaSuggest(o, n) ==
    IF n = 0 THEN o
    ELSE OptunaSuggest([o EXCEPT !.trials = Append(@, [state |-> "RUNNING", value |-> NoValue]),
                                 !.running_trials = @ \cup {Len(o.trials)}],
                       n - 1)

\* The trial numbers a suggest of n trials returns.
SuggestedTrialIds(o, n) == Len(o.trials) .. (Len(o.trials) + n - 1)

\* study.tell: the trial is COMPLETE with the score as its value, and it
\* becomes the study's best trial if there was none or its value is
\* greater than the best one's.
StudyTell(o, trial_id, score) ==
    [o EXCEPT !.trials[trial_id + 1] = [state |-> "COMPLETE", value |-> score],
              !.best_trial =
                  IF @ = {} THEN {trial_id}
                  ELSE IF \E b \in @ : FLt(o.trials[b + 1].value, score)
                       THEN {trial_id}
                       ELSE @]

\* A slip that tells the study and keeps the trial among the running ones.
OptunaReport_kept(o, trial_id, score) == StudyTell(o, trial_id, score)

\* OptunaOptimizer.report after its membership test: tell, then forget the
\* running trial.
OptunaReport(o, trial_id, score) ==
    [StudyTell(o, trial_id, score) EXCEPT !.running_trials = @ \ {trial_id}]

n_trials(o) == Len(o.trials)

n_complete_trials(o) ==
    Cardinality({k \in 1..Len(o.trials) : o.trials[k].state = "COMPLETE"})

n_running_trials(o) == Cardinality(o.running_trials)

\* OptunaOptimizer.get_best: None (NoValue) while no trial is complete.
get_best(o) ==
    IF n_complete_trials(o) = 0 THEN NoValue
    ELSE LET b == CHOOSE b \in o.best_trial : TRUE
         IN  [score |-> o.trials[b + 1].value, trial_id |-> b]

\* best["score"] if best else None
best_score(o) == IF get_best(o) = NoValue THEN NoValue ELSE get_best(o).score

ServiceResponse(endpoint, id, status, body) ==
    [endpoint |-> endpoint, optimizer_id |-> id, status |-> status, body |-> body]

ServiceNotFound(endpoint, id) ==
    /\ service_response' = ServiceResponse(endpoint, id, NotFound, "Optimizer not found")
    /\ UNCHANGED <<optimizers, service_uuid_count>>

ServiceFrame ==
    UNCHANGED <<boVars, jobVars, impVars, normVars, onlineVars, optVars, sugVars, conVars, srvVars>>

\* POST /optimizer/create.  The id is drawn first; an unknown sampler makes
\* OptunaOptimizer.__init__ raise ValueError, which leaves the handler
\* before the registry assignment (500).
service_create_optimizer ==
    /\ service_uuid_count < Cardinality(RequestIds)
    /\ \E sampler \in Samplers :
          LET optimizer_id == uuid4(service_uuid_count) IN
          /\ service_uuid_count' = service_uuid_count + 1
          /\ IF sampler \notin KnownSamplers
             THEN /\ service_response' = ServiceResponse("create", optimizer_id, 500, "ValueError")
                  /\ UNCHANGED optimizers
             ELSE /\ optimizers' = DictSet(optimizers, optimizer_id, OptunaNew(sampler))
                  /\ service_response' =
                         ServiceResponse("create", optimizer_id, 200,
                                         [optimizer_id |-> optimizer_id])
    /\ ServiceFrame

\* POST /optimizer/suggest.
suggest_params(id, n) ==
    /\ IF id \notin DOMAIN optimizers
       THEN ServiceNotFound("suggest", id)
       ELSE IF ~optimizers[id].samplable
            THEN /\ n_trials(optimizers[id]) + 1 <= MaxTrials
                 /\ optimizers' = [optimizers EXCEPT ![id] = OptunaSuggestRaises(@)]
                 /\ service_response' = ServiceResponse("suggest", id, 500, "ValueError")
                 /\ UNCHANGED service_uuid_count
            ELSE /\ n_trials(optimizers[id]) + n <= MaxTrials
                 /\ optimizers' = [optimizers EXCEPT ![id] = OptunaSuggest(@, n)]
                 /\ service_response' =
                        ServiceResponse("suggest", id, 200,
                                        [trial_ids |-> SuggestedTrialIds(optimizers[id], n)])
                 /\ UNCHANGED service_uuid_count
    /\ ServiceFrame

SuggestParams == \E id \in RequestIds, n \in 1..MaxSuggestions : suggest_params(id, n)

\* POST /optimizer/report.  A trial_id that is not running makes
\* OptunaOptimizer.report raise ValueError, which the handler does not
\* catch (500).
report_result(id, trial_id, score) ==
    /\ IF id \notin DOMAIN optimizers
       THEN ServiceNotFound("report", id)
       ELSE IF trial_id \notin optimizers[id].running_trials
            THEN /\ service_response' = ServiceResponse("report", id, 500, "ValueError")
                 /\ UNCHANGED <<optimizers, service_uuid_count>>
            ELSE LET told == OptunaReport(optimizers[id], trial_id, score) IN
                 /\ optimizers' = [optimizers EXCEPT ![id] = told]
                 /\ service_response' =
                        ServiceResponse("report", id, 200,
                                        [recorded |-> TRUE,
                                         best_score |-> best_score(told),
                                         n_trials |-> n_complete_trials(told)])
                 /\ UNCHANGED service_uuid_count
    /\ ServiceFrame

ReportResult ==
    \E id \in RequestIds, trial_id \in 0..(MaxTrials - 1), score \in ReportScores :
        report_result(id, trial_id, score)

\* GET /optimizer/{optimizer_id}/best.
get_best_params(id) ==
    /\ IF id \notin DOMAIN optimizers
       THEN ServiceNotFound("best", id)
       ELSE /\ service_response' =
                   ServiceResponse("best", id, 200,
                                   [best_score |-> best_score(optimizers[id]),
                                    n_trials |-> n_complete_trials(optimizers[id])])
            /\ UNCHANGED <<optimizers, service_uuid_count>>
    /\ ServiceFrame

GetBestParams == \E id \in RequestIds : get_best_params(id)

\* GET /optimizer/{optimizer_id}/status.
get_optimizer_status(id) ==
    /\ IF id \notin DOMAIN optimizers
       THEN ServiceNotFound("status", id)
       ELSE /\ service_response' =
                   ServiceResponse("status", id, 200,
                                   [n_trials |-> n_trials(optimizers[id]),
                                    n_complete |-> n_complete_trials(optimizers[id]),
                                    n_running |-> n_running_trials(optimizers[id]),
                                    best_score |-> best_score(optimizers[id])])
            /\ UNCHANGED <<optimizers, service_uuid_count>>
    /\ ServiceFrame

GetOptimizerStatus == \E id \in RequestIds : get_optimizer_status(id)

\* DELETE /optimizer/{optimizer_id}.
service_delete_optimizer(id) ==
    /\ IF id \notin DOMAIN optimizers
       THEN ServiceNotFound("delete", id)
       ELSE /\ optimizers' = DictDel(optimizers, id)
            /\ service_response' = ServiceResponse("delete", id, 200, [deleted |-> TRUE])
            /\ UNCHANGED service_uuid_count
    /\ ServiceFrame

ServiceDeleteOptimizer == \E id \in RequestIds : service_delete_optimizer(id)

\* The service at its start: an empty registry.
ServiceInit ==
    /\ optimizers = <<>>
    /\ service_uuid_count = 0
    /\ service_response = ServiceResponse("none", 0, 0, "none")

NextService ==
    \/ service_create_optimizer
    \/ SuggestParams
    \/ ReportResult
    \/ GetBestParams
    \/ GetOptimizerStatus
    \/ ServiceDeleteOptimizer

\* SpecService: the service alone, from its start.
InitService ==
    /\ ServiceInit
    /\ signal_bounds = <<>>
    /\ normalize_weights = TRUE
    /\ random_state = DefaultRandomState
    /\ NormIdle /\ ImpIdle /\ JobIdle /\ OnlineIdle /\ OptIdle /\ SugIdle /\ ConIdle /\ SrvIdle

SpecService == InitService /\ [][NextService]_vars

\* SpecOptuna: the service with one session registered, whose parameter
\* definitions Optuna can sample or cannot (main.py passes the request's
\* bounds on as they come), so that suggest is followed both ways.
InitOptuna ==
    /\ \E samplable \in BOOLEAN :
          optimizers = DictSet(<<>>, uuid4(0),
                               [OptunaNew("tpe") EXCEPT !.samplable = samplable])
    /\ service_uuid_count = 1
    /\ service_response = ServiceResponse("create", uuid4(0), 200,
                                          [optimizer_id |-> uuid4(0)])
    /\ signal_bounds = <<>>
    /\ normalize_weights = TRUE
    /\ random_state = DefaultRandomState
    /\ NormIdle /\ ImpIdle /\ JobIdle /\ OnlineIdle /\ OptIdle /\ SugIdle /\ ConIdle /\ SrvIdle

SpecOptuna == InitOptuna /\ [][NextService]_vars

\* C33 as stated: in every OptunaOptimizer, after any sequence of suggest
\* and report calls, n_trials = n_complete_trials + n_running_trials.
C33_TrialsRunningOrComplete ==
    \A id \in DOMAIN optimizers :
        n_trials(optimizers[id]) =
            n_complete_trials(optimizers[id]) + n_running_trials(optimizers[id])

(***************************************************************************)
(* SpecEndpoints: the two servers.  Each is a program of its own, and a    *)
(* behaviour is a run of one of them: the variables of the other keep the  *)
(* values they have while it is not started.                               *)
(***************************************************************************)
InitEndpoints == InitServer \/ InitService

ApiServerStep == SvcIdle /\ NextServer

ServiceStep == SrvIdle /\ NextService

NextEndpoints == ApiServerStep \/ ServiceStep

SpecEndpoints == InitEndpoints /\ [][NextEndpoints]_vars


(***************************************************************************)
(* Claims about the optimizer endpoints.                                   *)
(***************************************************************************)
\* A step in which a request that names the id arrives at its handler.
\* (Every handler answers under the id it was called with, so the first
\* conjuncts follow from each disjunct; they settle most steps early.)
RequestFor(id) ==
    /\ response' /= NoValue
    /\ response'.optimizer_id = id
    /\ running' = running
    /\ \/ /\ response'.endpoint = "evaluate"
          /\ \E e \in EvaluationInputs : record_evaluation_endpoint(id, e[1], e[2])
       \/ /\ response'.endpoint = "suggest"
          /\ suggest_weights(id, DefaultSuggestions)
       \/ /\ response'.endpoint = "best"
          /\ get_best_weights_endpoint(id)
       \/ /\ response'.endpoint = "delete"
          /\ delete_optimizer(id)

\* A step is a request of the service for optimizer_id id.
ServiceRequestFor(id) ==
    /\ service_response' /= NoValue
    /\ service_response'.optimizer_id = id
    /\ \/ /\ service_response'.endpoint = "suggest"
          /\ \E n \in 1..MaxSuggestions : suggest_params(id, n)
       \/ /\ service_response'.endpoint = "report"
          /\ \E trial_id \in 0..(MaxTrials - 1), score \in ReportScores :
                 report_result(id, trial_id, score)
       \/ /\ service_response'.endpoint = "best"
          /\ get_best_params(id)
       \/ /\ service_response'.endpoint = "status"
          /\ get_optimizer_status(id)
       \/ /\ service_response'.endpoint = "delete"
          /\ service_delete_optimizer(id)

\* C12: in api/optimizer_server.py evaluate, suggest, best and delete, and
\* in the service suggest, report, best, status and delete, called with an
\* optimizer_id that is not in the registry answer 404, and leave the
\* registry, every optimizer and the executor as they were.
C12_UnknownIdIsNotFound ==
    [][\A id \in RequestIds :
          /\ (id \notin DOMAIN active_optimizers /\ RequestFor(id)) =>
                 /\ response'.status = NotFound
                 /\ response'.optimizer_id = id
                 /\ UNCHANGED <<active_optimizers, heap, work_queue, running>>
          /\ (id \notin DOMAIN optimizers /\ ServiceRequestFor(id)) =>
                 /\ service_response'.status = NotFound
                 /\ service_response'.optimizer_id = id
                 /\ UNCHANGED optimizers
      ]_vars

\* C12 witness: with a session that has a running trial registered in the
\* service, a status request for another id was answered 404.
C12_Witness ==
    /\ service_response /= NoValue
    /\ service_response.endpoint = "status"
    /\ service_response.status = NotFound
    /\ service_response.optimizer_id \notin DOMAIN optimizers
    /\ \E id \in DOMAIN optimizers : optimizers[id].running_trials /= {}

\* C13 as stated: no evaluation is recorded on an optimizer while a
\* callable of a suggest request for the same optimizer runs on a worker
\* thread.
C13_OneOperationInFlight ==
    [][\A a \in 1..Len(heap) :
          heap'[a] /= heap[a] =>
              ~\E t \in BagToSet(running) : t.optimizer = a]_vars

\* C14 as stated: a suggest request whose session was deleted while it
\* waited on the executor is not answered with the suggestions.
C14_LateResultDiscarded ==
    ~(/\ response.endpoint = "suggest"
      /\ response.status = 200
      /\ response.optimizer_id \notin DOMAIN active_optimizers)

\* C15 as stated: a suggest request never waits in the executor's queue
\* while every worker thread runs callables of other sessions.
C15_OtherSessionsNotBlocked ==
    \A i \in 1..Len(work_queue) :
        ~(/\ BagCardinality(running) = MaxWorkers
          /\ \A t \in BagToSet(running) : t.optimizer /= work_queue[i].optimizer)

\* C16 as stated: a create request with invalid bounds fails and adds no
\* session, so every session in the registry has valid bounds.
C16_RegistryHasValidBounds ==
    /\ \A id \in DOMAIN active_optimizers :
          ValidBounds(heap[active_optimizers[id]].signal_bounds)
    /\ (response.endpoint = "create" /\ ~ValidBounds(signal_bounds)) =>
          response.status /= 200

\* C18 as stated: no history of any optimizer holds a score or a weight
\* that is NaN or infinite.
C18_HistoriesAreFinite ==
    \A a \in 1..Len(heap) :
        \A i \in 1..Len(heap[a].evaluation_history) :
            /\ WeightsFinite(heap[a].evaluation_history[i][1])
            /\ IsFinite(heap[a].evaluation_history[i][2])

C20_SessionLifecycle ==
    [][\A id \in RequestIds :
          /\ (id \in DOMAIN active_optimizers /\ id \notin DOMAIN active_optimizers') =>
                (delete_optimizer(id) /\ response'.status = 200)
          /\ (id <= uuid_count /\ id \notin DOMAIN active_optimizers) =>
                id \notin DOMAIN active_optimizers'
          /\ RequestFor(id) =>
                (response'.status = NotFound <=> id \notin DOMAIN active_optimizers)
          /\ (id \in DOMAIN optimizers /\ id \notin DOMAIN optimizers') =>
                (service_delete_optimizer(id) /\ service_response'.status = 200)
          /\ (id <= service_uuid_count /\ id \notin DOMAIN optimizers) =>
                id \notin DOMAIN optimizers'
          /\ ServiceRequestFor(id) =>
                (service_response'.status = NotFound <=> id \notin DOMAIN optimizers)
      ]_vars

\* C20 witness: session 1 was created and deleted, a second session was
\* created after that, and a later request for id 1 was answered 404.
C20_Witness ==
    /\ uuid_count = 2
    /\ DOMAIN active_optimizers = {2}
    /\ Len(heap) = 2
    /\ response.optimizer_id = 1
    /\ response.status = NotFound
    /\ response.endpoint \in {"evaluate", "suggest", "best", "delete"}

\* C35: evaluate requests for one session are never lost, whatever runs
\* between them.  Every evaluate request for a registered id adds exactly
\* one to the evaluation_count of that session's optimizer and puts its
\* pair at the end of the history, which keeps the last
\* min(count, window_size) pairs in the order the requests were handled;
\* no other step (a suggest request, a worker thread starting or finishing
\* its callable, a create) changes the count or the history.
C35_RecordsNeverLost ==
    /\ [](\A a \in 1..Len(heap) :
             Len(heap[a].evaluation_history) =
                 Min(heap[a].evaluation_count, heap[a].window_size))
    /\ [][\A a \in 1..Len(heap) :
             LET before == heap[a].evaluation_history
                 after  == heap'[a].evaluation_history
                 kept   == Min(heap[a].evaluation_count + 1, heap[a].window_size)
             IN  IF \E id \in DOMAIN active_optimizers, e \in EvaluationInputs :
                        /\ active_optimizers[id] = a
                        /\ record_evaluation_handler(id, e[1], e[2])
                 THEN \E id \in DOMAIN active_optimizers, e \in EvaluationInputs :
                        /\ active_optimizers[id] = a
                        /\ record_evaluation_handler(id, e[1], e[2])
                        /\ heap'[a].evaluation_count = heap[a].evaluation_count + 1
                        /\ after = SubSeq(Append(before, <<e[1], e[2]>>),
                                          Len(before) + 2 - kept, Len(before) + 1)
                 ELSE /\ heap'[a].evaluation_count = heap[a].evaluation_count
                      /\ after = before
        ]_vars

\* C35 witness: while a callable of a suggest request for the session runs
\* on a worker thread, two evaluate requests with different pairs were
\* handled; the count is 2 and both pairs are in the history.
C35_Witness ==
    \E a \in 1..Len(heap) :
        /\ \E t \in BagToSet(running) : t.optimizer = a
        /\ response.endpoint = "evaluate"
        /\ heap[a].evaluation_count = 2
        /\ Len(heap[a].evaluation_history) = 2
        /\ heap[a].evaluation_history[1] /= heap[a].evaluation_history[2]

\* C36: a job is "running", "completed" or "failed"; a completed job has a
\* result and progress 100, a failed job has an "error"; the id a batch
\* request returns is in the job table when it is returned.  A step never
\* removes a job, enters a job only as "running", and changes a job only
\* from "running" to "completed" or "failed", so a job changes at most once
\* and the two are terminal; a job-status request answers "not found"
\* exactly for the ids that are not in the table, and otherwise with the
\* job.
C36_JobStatusLifecycle ==
    /\ [](/\ \A id \in DOMAIN optimization_jobs :
               LET job == optimization_jobs[id]
               IN  /\ job.status \in {"running", "completed", "failed"}
                   /\ job.status = "completed" =>
                         (job.result /= NoValue /\ job.progress = 100)
                   /\ job.status = "failed" => "error" \in DOMAIN job
          /\ \A id \in 1..uuid_count : id \in DOMAIN optimization_jobs
          /\ (response.endpoint = "batch" /\ response.status = 200) =>
                response.optimizer_id \in DOMAIN optimization_jobs)
    /\ [][/\ \A id \in DOMAIN optimization_jobs :
               /\ id \in DOMAIN optimization_jobs'
               /\ optimization_jobs'[id] /= optimization_jobs[id] =>
                     /\ optimization_jobs[id].status = "running"
                     /\ optimization_jobs'[id].status \in {"completed", "failed"}
          /\ \A id \in DOMAIN optimization_jobs' \ DOMAIN optimization_jobs :
               optimization_jobs'[id].status = "running"
          /\ \A id \in JobIds :
               get_optimization_job(id) =>
                   /\ response'.status = NotFound <=> id \notin DOMAIN optimization_jobs
                   /\ id \in DOMAIN optimization_jobs =>
                         response'.body = optimization_jobs[id]
         ]_vars

\* C36 witness: of two jobs one has failed and the other has completed, and
\* a job-status request for the completed one was answered with it.
C36_Witness ==
    /\ response.endpoint = "job"
    /\ response.status = 200
    /\ response.body.status = "completed"
    /\ response.body.progress = 100
    /\ \E id \in DOMAIN optimization_jobs : optimization_jobs[id].status = "failed"

\* C37: a trial is reported at most once.  A report request for a trial_id
\* among the session's running trials succeeds: the trial, RUNNING until
\* then, becomes COMPLETE with the reported score and leaves the running
\* trials.  For any other trial_id (never returned by suggest, or reported
\* already) it raises ValueError and the session keeps its trials, its
\* running trials and its best trial.  The running trials grow only by the
\* fresh trial_ids a suggest request returns, and a COMPLETE trial stays as
\* it is.
C37_TrialReportedAtMostOnce ==
    [][/\ \A id \in DOMAIN optimizers, trial_id \in 0..(MaxTrials - 1),
             score \in ReportScores :
             report_result(id, trial_id, score) =>
                 IF trial_id \in optimizers[id].running_trials
                 THEN /\ service_response'.status = 200
                      /\ optimizers[id].trials[trial_id + 1].state = "RUNNING"
                      /\ optimizers'[id].trials[trial_id + 1] =
                             [state |-> "COMPLETE", value |-> score]
                      /\ optimizers'[id].running_trials =
                             optimizers[id].running_trials \ {trial_id}
                 ELSE /\ service_response'.status = 500
                      /\ service_response'.body = "ValueError"
                      /\ optimizers'[id] = optimizers[id]
       /\ \A id \in DOMAIN optimizers \cap DOMAIN optimizers' :
             LET o == optimizers[id]
                 added == optimizers'[id].running_trials \ o.running_trials
             IN  /\ added /= {} =>
                       /\ service_response'.endpoint = "suggest"
                       /\ service_response'.optimizer_id = id
                       /\ service_response'.status = 200
                       /\ added = service_response'.body.trial_ids
                       /\ \A t \in added : t >= Len(o.trials)
                 /\ \A k \in 1..Len(o.trials) :
                       o.trials[k].state = "COMPLETE" =>
                           /\ optimizers'[id].trials[k] = o.trials[k]
                           /\ (k - 1) \notin optimizers'[id].running_trials
      ]_vars

\* C37 witness: trial 0 of a session was reported and is COMPLETE, trial 1
\* is still running, and a further report request for the session raised
\* ValueError.
C37_Witness ==
    /\ service_response.endpoint = "report"
    /\ service_response.status = 500
    /\ service_response.optimizer_id \in DOMAIN optimizers
    /\ LET o == optimizers[service_response.optimizer_id]
       IN  /\ Len(o.trials) = 2
           /\ o.trials[1].state = "COMPLETE"
           /\ o.running_trials = {1}

\* C38: in the OptimizationResult of optimize(), best_score is the largest
\* of all_scores and the last element of convergence_history, and
\* best_weights is the vector all_weights holds at an index where
\* all_scores holds best_score.
C38_BestIsAnEvaluatedPoint ==
    opt_pc = "done" =>
        /\ \E i \in 1..Len(result.all_scores) :
              /\ result.all_scores[i] = result.best_score
              /\ result.all_weights[i] = result.best_weights
        /\ \A i \in 1..Len(result.all_scores) :
              FLe(result.all_scores[i], result.best_score)
        /\ result.convergence_history /= <<>>
        /\ result.best_score =
               result.convergence_history[Len(result.convergence_history)]

\* C38 witness: a run has returned whose second point scored higher than
\* its first and had other weights, and the result names the second.
C38_Witness ==
    /\ opt_pc = "done"
    /\ Len(result.all_scores) = 2
    /\ FLt(result.all_scores[1], result.all_scores[2])
    /\ result.all_weights[1] /= result.all_weights[2]
    /\ result.best_weights = result.all_weights[2]
    /\ result.best_score = result.all_scores[2]

(***************************************************************************)
(* SpecRounded: _normalize in binary floating point.  The arithmetic above *)
(* is exact; numpy's is IEEE 754, where every sum and every quotient is    *)
(* rounded to the nearest float, ties to even.  The floats here have       *)
(* FloatBits bits of precision (binary64 has 53) and no exponent limits.   *)
(***************************************************************************)
FloatBits == 5   \* bits of precision of the floats of SpecRounded

RECURSIVE Pow2(_)
Pow2(k) == IF k = 0 THEN 1 ELSE 2 * Pow2(k - 1)

\* x * 2^k for an integer k of either sign.
Scaled(x, k) == IF k >= 0 THEN Frac(x[1] * Pow2(k), x[2]) ELSE Frac(x[1], x[2] * Pow2(-k))

\* The integer nearest to x >= 0, the even one of two equally near.
RoundHalfEven(x) ==
    LET m == x[1] \div x[2]
        r == FSub(x, Num(m))
    IN  IF FLt(Frac(1, 2), r) \/ (r = Frac(1, 2) /\ m % 2 = 1) THEN m + 1 ELSE m

\* The float nearest to the number x: its significand has FloatBits bits.
FloatRound(x) ==
    IF x[1] = 0 THEN Zero
    ELSE LET a == <<Abs(x[1]), x[2]>>
             e == CHOOSE e \in (-(FloatBits + 8))..8 :
                      /\ FLe(Num(Pow2(FloatBits - 1)), Scaled(a, -e))
                      /\ FLt(Scaled(a, -e), Num(Pow2(FloatBits)))
             r == Scaled(Num(RoundHalfEven(Scaled(a, -e))), e)
         IN  IF x[1] < 0 THEN FNeg(r) ELSE r

\* np.sum over a short one-dimensional array: the elements are added one
\* after the other, each sum rounded.
RECURSIVE FloatSum(_, _)
FloatSum(w, k) ==
    IF k = 0 THEN Zero ELSE FloatRound(FAdd(FloatSum(w, k - 1), w[k]))

\* _normalize on floats.
_normalize_rounded(weights) ==
    LET total == FloatSum(weights, Len(weights))
    IN  IF FLt(Zero, total)
        THEN [i \in DOMAIN weights |-> FloatRound(FDiv(weights[i], total))]
        ELSE [i \in DOMAIN weights |-> FloatRound(FDiv(One, Num(Len(weights))))]

\* The raw arrays of SpecRounded: whole numbers, which are floats.
RoundedRawArrays ==
    UNION {[1..n -> {Num(k) : k \in (-(MaxRaw + 1))..(MaxRaw + 1)}] : n \in 1..MaxLen}

InitRounded ==
    /\ signal_bounds = <<>>
    /\ normalize_weights = TRUE
    /\ random_state = DefaultRandomState
    /\ raw \in RoundedRawArrays
    /\ normalized = NoValue
    /\ weights_dict = NoValue
    /\ ImpIdle /\ JobIdle /\ OnlineIdle /\ OptIdle /\ SugIdle /\ ConIdle /\ SrvIdle /\ SvcIdle

\* _normalize(raw)
NormalizeRounded ==
    /\ normalized = NoValue
    /\ normalized' = _normalize_rounded(raw)
    /\ UNCHANGED <<raw, weights_dict>>
    /\ UNCHANGED <<boVars, jobVars, impVars, onlineVars, optVars, sugVars, conVars, srvVars,
                   svcVars>>

\* _weights_to_dict on the normalized array, in simplex mode.
WeightsToDictRounded ==
    /\ normalized /= NoValue
    /\ weights_dict = NoValue
    /\ weights_dict' =
           ZipDict(SignalIdsOfLen(Len(raw)), _normalize_rounded(normalized))
    /\ UNCHANGED <<raw, normalized>>
    /\ UNCHANGED <<boVars, jobVars, impVars, onlineVars, optVars, sugVars, conVars, srvVars,
                   svcVars>>

NextRounded == NormalizeRounded \/ WeightsToDictRounded

SpecRounded == InitRounded /\ [][NextRounded]_vars

\* C39 as stated: _normalize(_normalize(w)) = _normalize(w), and the named
\* vector _weights_to_dict makes of an already normalized array holds the
\* components of that array.
C39_NormalizationIdempotent ==
    /\ normalized /= NoValue => _normalize_rounded(normalized) = normalized
    /\ weights_dict /= NoValue =>
           DictToArray(SignalIdsOfLen(Len(raw)), weights_dict) = normalized

=============================================================================
